---- MODULE Spec2Model ----
(***************************************************************************)
(* Stock reservation and order lifecycle of muhammadheryan/e-commerce.     *)
(*                                                                         *)
(* The relational store is MySQL/InnoDB opened with the default isolation  *)
(* level (BeginTxx(ctx, nil)): a plain SELECT is a consistent non-locking  *)
(* read of committed data, SELECT ... FOR UPDATE and UPDATE read the       *)
(* latest committed version and hold exclusive row locks until the         *)
(* transaction ends.  A transaction's writes are kept in its own write set *)
(* (relative row updates upd, inserted fragments ins, deleted fragments    *)
(* del, the order row) and reach the tables at CommitTx.  A locking read   *)
(* over a join locks the rows it reads in every table of the join, one row *)
(* after the other in the order the server scans them.                     *)
(***************************************************************************)
EXTENDS Integers, Sequences, FiniteSets, TLC

(* ---- bounds of the model ---- *)
NumWarehouses == 2
NumProducts == 2
MaxStock == 2
MaxUnits == 2
MaxQuantity == 2
MaxItems == 2
MaxOrders == 2
NumWorkers == 2
MaxFailures == 2
NumUsers == 1
TicksPerMs == 2
ExpirationMs == 2
MaxTime == 5

(* ---- program constants ---- *)
OrderStatusPending == 1
OrderStatusCompleted == 2
OrderStatusCanceled == 3

WarehouseStatusActive == "active"
WarehouseStatusInactive == "inactive"

Successful == "success"
ErrInternal == "error internal"
ErrNotFound == "data not found"
ErrInvalidRequest == "invalid request"
ErrUnauthorize == "unauthorize request"
ErrInsufficientStock == "insufficient stock"
ErrInvalidOrderStatus == "invalid order status"

Warehouses == 1..NumWarehouses
Products == 1..NumProducts
Rows == Warehouses \X Products
OrderIDs == 1..MaxOrders
Workers == 1..NumWorkers
Users == 1..NumUsers

NoOrder == [status |-> 0, items |-> <<>>]

VARIABLES
  warehouse,          \* table warehouse: id -> status
  warehouse_stock,    \* table warehouse_stock: (warehouse_id, product_id) -> [stock, reserved]
  stock_reservation,  \* table stock_reservation: set of reservation fragments
  orders,             \* tables order / order_item: id -> [status, items], NoOrder when absent
  lastInsertId,       \* auto-increment counter of table order
  tx,                 \* per worker: the operation in flight and its transaction
  ret,                \* what the last step returned to its caller (NoRet: nothing)
  journal,            \* history: fragment id -> [commit, release] counts of applied consumptions
  trip,               \* history of the ledger round trips: the rows before the allocation
  order_expiration_queue,  \* broker queue: order id -> state of the order's expiration message
  channel,            \* the publisher's AMQP channel: "open" or "closed"
  failures,           \* number of cancel calls of the consumer that failed so far
  now,                \* the wall clock (time.Now()), in ticks of 1/TicksPerMs ms
  order_row,          \* columns user_id, expires_at that InsertOrderTx was given: order id -> record
  message,            \* the published expiration message of an order: body, x-delay header, time of publish
  publish_calls,      \* history: order id -> number of calls of PublishOrderExpiration
  calls,              \* history: the repository calls of the operation in flight, in order
  response            \* what client.Do of the consumer returned last: an error or a status code

vars == <<warehouse, warehouse_stock, stock_reservation, orders, lastInsertId,
          tx, ret, journal, trip, order_expiration_queue, channel, failures,
          now, order_row, message, publish_calls, calls, response>>

tables == <<warehouse_stock, stock_reservation, orders>>

broker == <<order_expiration_queue, channel, failures>>

expiration == <<now, order_row, message, publish_calls>>

probes == <<calls, response>>

(* ---- helpers ---- *)
RECURSIVE SumQty(_)
SumQty(S) ==
  IF S = {} THEN 0
  ELSE LET f == CHOOSE x \in S : TRUE IN f.quantity + SumQty(S \ {f})

RECURSIVE SumSeq(_)
SumSeq(s) == IF s = <<>> THEN 0 ELSE Head(s) + SumSeq(Tail(s))

Perms(S) ==
  {s \in [1..Cardinality(S) -> S] : \A i, j \in DOMAIN s : i # j => s[i] # s[j]}

ZeroUpd == [r \in Rows |-> [stock |-> 0, reserved |-> 0]]

AddUpd(a, b) ==
  [r \in Rows |-> [stock |-> a[r].stock + b[r].stock,
                   reserved |-> a[r].reserved + b[r].reserved]]

FragsAt(S, r) == {f \in S : <<f.warehouse_id, f.product_id>> = r}

FragsOf(S, orderID) == {f \in S : f.order_id = orderID}

\* The quantity an item list asks of a product.
Requested(items, productID) ==
  SumSeq([i \in DOMAIN items |->
            IF items[i].ProductID = productID THEN items[i].Quantity ELSE 0])

\* scan: the row order of a locking read that is waiting for a lock;
\* warehouse_id: the warehouse a warehouse operation was called for.
IdleTx ==
  [op |-> "none", pc |-> "idle", order_id |-> 0, items |-> <<>>, idx |-> 0,
   upd |-> ZeroUpd, ins |-> {}, locks |-> {}, scan |-> <<>>, warehouse_id |-> 0]

NoRet == [op |-> "none", order_id |-> 0, result |-> "none", item |-> 0]

NoTrip == [phase |-> "none", order_id |-> 0, items |-> <<>>, before |-> <<>>, frags |-> {}]

\* The operation of worker t returns result to its caller (item: the item
\* of the request whose allocation ended the operation, 0 if none did).
Done(t, op, order_id, result, item) ==
  /\ tx' = [tx EXCEPT ![t] = IdleTx]
  /\ ret' = [op |-> op, order_id |-> order_id, result |-> result, item |-> item]

ActiveWarehouses == {w \in Warehouses : warehouse[w] = WarehouseStatusActive}

\* The rows as transaction t sees them in a locking read: latest committed
\* values plus its own uncommitted relative updates.
View(t) == AddUpd(warehouse_stock, tx[t].upd)

\* SELECT ... FOR UPDATE / UPDATE: the rows L are locked by no other transaction.
LockFree_dropped(t, L) == TRUE

LockFree(t, L) == \A u \in Workers \ {t} : tx[u].locks \cap L = {}

\* The row of table warehouse with id w, as a lockable row beside the rows
\* <<w, p>> of table warehouse_stock.
WarehouseRow(w) == <<w, 0>>

\* The rows the SELECT ... JOIN ... FOR UPDATE of ReserveStockTx reads and
\* locks for a product: the stock rows of the active warehouses and, through
\* the join, the rows of these warehouses.
StockLocks(productID) ==
  {<<w, productID>> : w \in ActiveWarehouses}
    \cup {WarehouseRow(w) : w \in ActiveWarehouses}

\* The order in which that statement takes its locks: the warehouses in the
\* order ord of the result, and for each one the stock row and the warehouse
\* row in the order of the join the server chose (plan).
JoinPlans == {"warehouse_stock", "warehouse"}

Scan(ord, productID, plan) ==
  [k \in 1..(2 * Len(ord)) |->
     LET w == ord[(k + 1) \div 2]
     IN IF (k % 2 = 1) = (plan = "warehouse_stock")
        THEN <<w, productID>> ELSE WarehouseRow(w)]

\* The requests offered to CreateOrder: up to MaxItems items asking for up to
\* MaxQuantity units in total; the quantity 0, which the handler rejects, is
\* offered in the one-item requests.
ItemRequests == [ProductID : Products, Quantity : 0..MaxQuantity]
OrderRequests ==
  {req \in UNION {[1..n -> ItemRequests] : n \in 0..MaxItems} :
     /\ SumSeq([i \in DOMAIN req |-> req[i].Quantity]) <= MaxQuantity
     /\ Len(req) > 1 => \A i \in DOMAIN req : req[i].Quantity > 0}

(* ---- repository/warehouse ---- *)
GetTotalAvailableStockTx_allWarehouses(productID) ==
  SumSeq([i \in 1..NumWarehouses |->
            warehouse_stock[<<i, productID>>].stock
              - warehouse_stock[<<i, productID>>].reserved])

GetTotalAvailableStockTx(productID) ==
  SumSeq([i \in 1..NumWarehouses |->
            IF warehouse[i] = WarehouseStatusActive
            THEN warehouse_stock[<<i, productID>>].stock
                   - warehouse_stock[<<i, productID>>].reserved
            ELSE 0])

\* One visited row of the allocation loop: the quantity taken from it.
Alloc_uncapped(avail, needed) == needed

Alloc(avail, needed) == IF avail > needed THEN needed ELSE avail

\* The allocation loop over the selected rows; acc collects the reservation
\* fragments written so far (each one also adds its quantity to reserved).
RECURSIVE ReserveWalk(_, _, _, _)
ReserveWalk(rowsList, req, needed, acc) ==
  IF rowsList = <<>> THEN [needed |-> needed, ins |-> acc]
  ELSE LET w == Head(rowsList)
           avail == w.stock - w.reserved
       IN IF avail <= 0 THEN ReserveWalk(Tail(rowsList), req, needed, acc)
          ELSE LET alloc == Alloc(avail, needed)
                   frag == [id |-> <<req.OrderID, req.Item, w.warehouse_id>>,
                            order_id |-> req.OrderID,
                            warehouse_id |-> w.warehouse_id,
                            product_id |-> req.ProductID,
                            quantity |-> alloc]
               IN IF needed - alloc <= 0
                  THEN [needed |-> needed - alloc, ins |-> acc \cup {frag}]
                  ELSE ReserveWalk(Tail(rowsList), req, needed - alloc, acc \cup {frag})

\* rowsList is the result of the SELECT ... FOR UPDATE (no ORDER BY: the rows
\* come in the order ord the server chooses).  The result: the error, the
\* fragments inserted and the relative updates of reserved.
ReserveStockTx_noInsert(view, ord, req) ==
  LET rowsList == [i \in DOMAIN ord |->
                     [warehouse_id |-> ord[i],
                      stock |-> view[<<ord[i], req.ProductID>>].stock,
                      reserved |-> view[<<ord[i], req.ProductID>>].reserved]]
      walk == ReserveWalk(rowsList, req, req.Quantity, {})
  IN [err |-> IF walk.needed > 0 THEN ErrInsufficientStock ELSE Successful,
      ins |-> {},
      upd |-> [r \in Rows |-> [stock |-> 0,
                               reserved |-> SumQty(FragsAt(walk.ins, r))]]]

ReserveStockTx(view, ord, req) ==
  LET rowsList == [i \in DOMAIN ord |->
                     [warehouse_id |-> ord[i],
                      stock |-> view[<<ord[i], req.ProductID>>].stock,
                      reserved |-> view[<<ord[i], req.ProductID>>].reserved]]
      walk == ReserveWalk(rowsList, req, req.Quantity, {})
  IN [err |-> IF walk.needed > 0 THEN ErrInsufficientStock ELSE Successful,
      ins |-> walk.ins,
      upd |-> [r \in Rows |-> [stock |-> 0,
                               reserved |-> SumQty(FragsAt(walk.ins, r))]]]

\* "SELECT ... FROM stock_reservation WHERE order_id = ? FOR UPDATE"
GetReservationsByOrderTx_allOrders(t, orderID) == stock_reservation

GetReservationsByOrderTx(t, orderID) == FragsOf(stock_reservation, orderID)

\* CommitReservationsTx / ReleaseReservationsTx over the fragments read: the
\* relative row updates, the fragments used for them and the fragments deleted.
CommitReservationsTx_stockOnly(reservations) ==
  [upd |-> [r \in Rows |-> [stock |-> 0 - SumQty(FragsAt(reservations, r)),
                            reserved |-> 0]],
   used |-> reservations, del |-> reservations]

CommitReservationsTx_noDelete(reservations) ==
  [upd |-> [r \in Rows |-> [stock |-> 0 - SumQty(FragsAt(reservations, r)),
                            reserved |-> 0 - SumQty(FragsAt(reservations, r))]],
   used |-> reservations, del |-> {}]

CommitReservationsTx(reservations) ==
  [upd |-> [r \in Rows |-> [stock |-> 0 - SumQty(FragsAt(reservations, r)),
                            reserved |-> 0 - SumQty(FragsAt(reservations, r))]],
   used |-> reservations, del |-> reservations]

ReleaseReservationsTx_alsoStock(reservations) ==
  [upd |-> [r \in Rows |-> [stock |-> 0 - SumQty(FragsAt(reservations, r)),
                            reserved |-> 0 - SumQty(FragsAt(reservations, r))]],
   used |-> reservations, del |-> reservations]

ReleaseReservationsTx_noUpdate(reservations) ==
  [upd |-> ZeroUpd, used |-> {}, del |-> reservations]

ReleaseReservationsTx_noDelete(reservations) ==
  [upd |-> [r \in Rows |-> [stock |-> 0,
                            reserved |-> 0 - SumQty(FragsAt(reservations, r))]],
   used |-> reservations, del |-> {}]

ReleaseReservationsTx(reservations) ==
  [upd |-> [r \in Rows |-> [stock |-> 0,
                            reserved |-> 0 - SumQty(FragsAt(reservations, r))]],
   used |-> reservations, del |-> reservations]

(* ---- repository/tx ---- *)
\* History of consumed fragments, kept beside the tables: used are the
\* fragments whose quantity the transaction took off their rows.
Journal(op, ins, used) ==
  [id \in DOMAIN journal \cup {f.id : f \in used \cup ins} |->
     LET old == IF id \in DOMAIN journal THEN journal[id]
                ELSE [commit |-> 0, release |-> 0]
         hit == \E f \in used : f.id = id
     IN [commit |-> old.commit + (IF hit /\ op = "PayOrder" THEN 1 ELSE 0),
         release |-> old.release
                       + (IF hit /\ op \in {"CancelOrder", "InternalCancelOrder"}
                          THEN 1 ELSE 0)]]

\* CommitTx: the write set of the transaction (relative row updates upd,
\* inserted fragments ins, deleted fragments del, the row of order orderID)
\* reaches the tables atomically.
CommitTx_noInsert(t, upd, ins, used, del, orderID, status, items) ==
  /\ warehouse_stock' = AddUpd(warehouse_stock, upd)
  /\ stock_reservation' = stock_reservation \ del
  /\ orders' = [orders EXCEPT ![orderID] = [status |-> status, items |-> items]]
  /\ journal' = Journal(tx[t].op, ins, used)

CommitTx(t, upd, ins, used, del, orderID, status, items) ==
  /\ warehouse_stock' = AddUpd(warehouse_stock, upd)
  /\ stock_reservation' = (stock_reservation \ del) \cup ins
  /\ orders' = [orders EXCEPT ![orderID] = [status |-> status, items |-> items]]
  /\ journal' = Journal(tx[t].op, ins, used)

\* RollbackTx: the write set is discarded, the tables keep their values.
RollbackTx_partial(t) ==
  /\ warehouse_stock' = View(t)
  /\ stock_reservation' = stock_reservation \cup tx[t].ins
  /\ UNCHANGED <<orders, journal>>

RollbackTx(t) ==
  UNCHANGED <<warehouse_stock, stock_reservation, orders, journal>>

\* A new call is served by the lowest idle worker (workers are interchangeable).
Serves(t) ==
  /\ tx[t].pc = "idle"
  /\ \A u \in Workers : u < t => tx[u].pc # "idle"

(* ---- application/order: CreateOrder ---- *)
\* "len(req.Items) == 0"
EmptyItems_unchecked(req) == FALSE

EmptyItems(req) == Len(req) = 0

\* "validate stock for each item": every item's quantity is within the
\* advisory availability of its product.
StockCheck_skipped(req) == TRUE

StockCheck(req) ==
  \A i \in DOMAIN req :
    ~(GetTotalAvailableStockTx(req[i].ProductID) < req[i].Quantity)

\* s.config.Order.OrderExpiration, in ticks.
OrderExpiration == ExpirationMs * TicksPerMs

\* The application operation: the empty-list check, BeginTx, the advisory
\* stock check of every item and the insert of order and items.  The row
\* given to InsertOrderTx is kept under the id the insert returned; it is
\* part of table order once the transaction has committed.
CreateOrder(t, UserID, req) ==
  /\ Serves(t)
  /\ UNCHANGED <<warehouse, warehouse_stock, stock_reservation, orders, journal, trip>>
  /\ UNCHANGED <<broker, now, message, publish_calls, probes>>
  /\ IF EmptyItems(req)
     THEN /\ Done(t, "CreateOrder", 0, ErrInvalidRequest, 0)
          /\ UNCHANGED <<lastInsertId, order_row>>
     ELSE \/ /\ Done(t, "CreateOrder", 0, ErrInternal, 0)
             /\ UNCHANGED <<lastInsertId, order_row>>
          \/ /\ ~StockCheck(req)
             /\ Done(t, "CreateOrder", 0, ErrInsufficientStock, 0)
             /\ UNCHANGED <<lastInsertId, order_row>>
          \/ /\ StockCheck(req)
             /\ lastInsertId < MaxOrders
             /\ lastInsertId' = lastInsertId + 1
             /\ order_row' = [order_row EXCEPT ![lastInsertId + 1] =
                                [user_id |-> UserID,
                                 expires_at |-> now + OrderExpiration]]
             /\ ret' = NoRet
             /\ tx' = [tx EXCEPT ![t] =
                         [IdleTx EXCEPT !.op = "CreateOrder", !.pc = "reserve",
                                        !.order_id = lastInsertId + 1,
                                        !.items = req, !.idx = 1]]

\* validate:"required" on ProductID, validate:"required,gt=0" on Quantity
\* (an empty item list passes validate:"required,dive,required").
ValidateStruct(req) ==
  \A i \in DOMAIN req : req[i].ProductID # 0 /\ req[i].Quantity > 0

\* The handler of POST /public/v1/order: the request is validated, then
\* handed to the application operation.
RestHandler_CreateOrder(t, UserID, req) ==
  IF ~ValidateStruct(req)
  THEN /\ Serves(t)
       /\ Done(t, "RestHandler.CreateOrder", 0, ErrInvalidRequest, 0)
       /\ UNCHANGED <<warehouse, warehouse_stock, stock_reservation, orders,
                      journal, trip, lastInsertId>>
       /\ UNCHANGED <<broker, expiration, probes>>
  ELSE CreateOrder(t, UserID, req)

\* Publisher.PublishOrderExpiration: the message of the order enters the
\* queue (to be delivered once its delay has passed); on a closed channel
\* Publish fails and the caller only logs the error.
PublishOrderExpiration_always(orderID) ==
  [order_expiration_queue EXCEPT ![orderID] = "ready"]

PublishOrderExpiration(orderID) ==
  IF channel = "open"
  THEN [order_expiration_queue EXCEPT ![orderID] = "ready"]
  ELSE order_expiration_queue

\* Duration.Milliseconds: the duration d (in ticks) as a whole number of
\* milliseconds, rounded toward zero.
Milliseconds(d) ==
  IF d >= 0 THEN d \div TicksPerMs ELSE 0 - ((0 - d) \div TicksPerMs)

\* "delayMs": ExpiresAt.Sub(time.Now()).Milliseconds(), clamped at 0.
DelayMs(ExpiresAt) ==
  LET delayMs == Milliseconds(ExpiresAt - now)
  IN IF delayMs < 0 THEN 0 ELSE delayMs

\* The message as the exchange holds it: the body (json.Marshal of msg,
\* which json.Unmarshal of the consumer decodes), the x-delay header and
\* the time the exchange received it.
NoMessage ==
  [body |-> [OrderID |-> 0, UserID |-> 0, ExpiresAt |-> 0], x_delay |-> 0, at |-> 0]

Publishing_noUser(msg) ==
  [body |-> [msg EXCEPT !.UserID = 0], x_delay |-> DelayMs(msg.ExpiresAt), at |-> now]

Publishing(msg) ==
  [body |-> msg, x_delay |-> DelayMs(msg.ExpiresAt), at |-> now]

\* The x-delayed-message exchange routes a message to the queue x-delay
\* milliseconds after it received it.
DueAt(m) == m.at + m.x_delay * TicksPerMs

\* Errors of the driver that ReserveStockTx hands on as they are, by their
\* Error() text (a lock wait that timed out, a deadlock victim, a cancelled
\* context).
DriverErrors ==
  {"Error 1205 (HY000): Lock wait timeout exceeded; try restarting transaction",
   "Error 1213 (40001): Deadlock found when trying to get lock; try restarting transaction",
   "context canceled"}

\* What CreateOrder returns for an error err of ReserveStockTx (err is the
\* text of err.Error(); that of a CustomError is its ErrorTypeMessage).
ReserveError_allInternal(err) == ErrInternal

ReserveError(err) ==
  IF err = ErrInsufficientStock THEN ErrInsufficientStock ELSE ErrInternal

\* One iteration of the "reserve stock per item" loop; after the last item
\* the transaction is committed, the expiration message is published and the
\* operation returns.  A failure of the store (in ReserveStockTx or in
\* CommitTx) ends the operation with Internal; item tells the caller's log
\* which item's allocation reported insufficient stock (0: none did).
ReserveItem(t) ==
  /\ tx[t].op = "CreateOrder" /\ tx[t].pc = "reserve"
  /\ UNCHANGED <<warehouse, lastInsertId, trip, channel, failures>>
  /\ UNCHANGED <<now, order_row, probes>>
  /\ \/ /\ \E err \in DriverErrors :
             /\ RollbackTx(t)
             /\ Done(t, "CreateOrder", tx[t].order_id, ReserveError(err), 0)
        /\ UNCHANGED <<order_expiration_queue, message, publish_calls>>
     \/ LET item == tx[t].items[tx[t].idx]
            req == [OrderID |-> tx[t].order_id, ProductID |-> item.ProductID,
                    Quantity |-> item.Quantity, Item |-> tx[t].idx]
            locks == StockLocks(item.ProductID)
        IN /\ LockFree(t, locks)
           /\ \E ord \in (IF tx[t].scan = <<>> THEN Perms(ActiveWarehouses)
                          ELSE {tx[t].scan}) :
                LET res == ReserveStockTx(View(t), ord, req)
                    upd == AddUpd(tx[t].upd, res.upd)
                    ins == tx[t].ins \cup res.ins
                IN IF res.err # Successful
                   THEN /\ RollbackTx(t)
                        /\ Done(t, "CreateOrder", tx[t].order_id,
                                ReserveError(res.err), tx[t].idx)
                        /\ UNCHANGED <<order_expiration_queue, message, publish_calls>>
                   ELSE IF tx[t].idx < Len(tx[t].items)
                   THEN /\ UNCHANGED <<warehouse_stock, stock_reservation, orders, journal>>
                        /\ UNCHANGED <<order_expiration_queue, message, publish_calls>>
                        /\ ret' = NoRet
                        /\ tx' = [tx EXCEPT ![t].upd = upd, ![t].ins = ins,
                                            ![t].locks = @ \cup locks,
                                            ![t].idx = @ + 1,
                                            ![t].scan = <<>>]
                   ELSE /\ CommitTx(t, upd, ins, {}, {}, tx[t].order_id,
                                    OrderStatusPending, tx[t].items)
                        /\ order_expiration_queue' =
                             PublishOrderExpiration(tx[t].order_id)
                        /\ message' =
                             IF channel = "open"
                             THEN [message EXCEPT ![tx[t].order_id] =
                                     Publishing(
                                       [OrderID |-> tx[t].order_id,
                                        UserID |-> order_row[tx[t].order_id].user_id,
                                        ExpiresAt |-> order_row[tx[t].order_id].expires_at])]
                             ELSE message
                        /\ publish_calls' =
                             [publish_calls EXCEPT ![tx[t].order_id] = @ + 1]
                        /\ Done(t, "CreateOrder", tx[t].order_id, Successful, 0)

\* The locking read of ReserveStockTx meets a row locked by another
\* transaction: it keeps the locks on the rows it has read so far (k - 1 rows
\* of its scan) and waits.
LockWait(t) ==
  /\ tx[t].op = "CreateOrder" /\ tx[t].pc = "reserve" /\ tx[t].scan = <<>>
  /\ \E ord \in Perms(ActiveWarehouses), plan \in JoinPlans :
       LET s == Scan(ord, tx[t].items[tx[t].idx].ProductID, plan)
       IN \E k \in 2..Len(s) :
            /\ ~LockFree(t, {s[k]})
            /\ LockFree(t, {s[j] : j \in 1..(k - 1)})
            /\ {s[j] : j \in 1..(k - 1)} \ tx[t].locks # {}
            /\ tx' = [tx EXCEPT ![t].locks = @ \cup {s[j] : j \in 1..(k - 1)},
                                ![t].scan = ord]
  /\ ret' = NoRet
  /\ UNCHANGED <<warehouse, warehouse_stock, stock_reservation, orders,
                 lastInsertId, journal, trip>>
  /\ UNCHANGED <<broker, expiration, probes>>

\* Transaction t waits for transaction u: the locking read of the item it is
\* at needs a row that u has locked.
Waits(t, u) ==
  /\ tx[t].op = "CreateOrder" /\ tx[t].pc = "reserve"
  /\ tx[u].locks \cap StockLocks(tx[t].items[tx[t].idx].ProductID) # {}

(* ---- application/order: PayOrder / CancelOrder ---- *)
\* "verify status is pending"
IsPending_unchecked(orderDetail) == TRUE

IsPending_notExpired(orderDetail) ==
  /\ orderDetail.status = OrderStatusPending
  /\ \E o \in OrderIDs : orders[o] = orderDetail /\ now <= order_row[o].expires_at

IsPending(orderDetail) == orderDetail.status = OrderStatusPending

\* The HTTP status of a response that carries the error of the operation.
ErrorTypeHTTPCode(result) ==
  IF result = Successful THEN 200
  ELSE IF result = ErrInternal THEN 500
  ELSE IF result = ErrUnauthorize THEN 401
  ELSE 400

\* Consumer.callCancelOrderAPI: TRUE when it returns nil, FALSE when it
\* returns an error (a status below 200, or 500 and above).
callCancelOrderAPI_only2xx(StatusCode) == StatusCode >= 200 /\ StatusCode < 300

callCancelOrderAPI_never(StatusCode) == TRUE

callCancelOrderAPI_below200(StatusCode) == ~(StatusCode >= 500)

callCancelOrderAPI(StatusCode) == ~(StatusCode < 200 \/ StatusCode >= 500)

\* What the caller makes of the result.  The expiration consumer, whose call
\* is the operation InternalCancelOrder, acknowledges the message when
\* callCancelOrderAPI returns nil and otherwise requeues it (Nack); the
\* callers of the public routes leave the queue alone.
Reply(op, orderID, result) ==
  IF op = "InternalCancelOrder"
  THEN /\ order_expiration_queue' =
            [order_expiration_queue EXCEPT ![orderID] =
               IF callCancelOrderAPI(ErrorTypeHTTPCode(result))
               THEN "acked" ELSE "ready"]
       /\ failures' = IF result = ErrInternal THEN failures + 1 ELSE failures
       /\ UNCHANGED channel
  ELSE UNCHANGED broker

\* The store may fail any call; the failures of the consumer's calls are
\* counted and end after MaxFailures of them.
MayFail(op) == op = "InternalCancelOrder" => failures < MaxFailures

\* The error of GetOrderDetailTx: StructScan of a row that does not exist
\* returns sql.ErrNoRows.
ErrNoRows == "sql: no rows in result set"

GetOrderDetailTx(orderID) ==
  IF orders[orderID] = NoOrder THEN ErrNoRows ELSE Successful

\* BeginTx, GetOrderDetailTx (a plain SELECT) and the status check.  Every
\* error of GetOrderDetailTx, that of a missing order included, is answered
\* with Internal.
LoadOrder(t, op, orderID) ==
  /\ Serves(t)
  /\ UNCHANGED <<expiration, probes>>
  /\ UNCHANGED <<warehouse, lastInsertId, warehouse_stock, stock_reservation,
                 orders, journal, trip>>
  /\ \/ /\ MayFail(op)
        /\ Done(t, op, orderID, ErrInternal, 0)
        /\ Reply(op, orderID, ErrInternal)
     \/ /\ GetOrderDetailTx(orderID) # Successful
        /\ Done(t, op, orderID, ErrInternal, 0)
        /\ Reply(op, orderID, ErrInternal)
     \/ /\ GetOrderDetailTx(orderID) = Successful
        /\ IF ~IsPending(orders[orderID])
           THEN /\ Done(t, op, orderID, ErrInvalidOrderStatus, 0)
                /\ Reply(op, orderID, ErrInvalidOrderStatus)
           ELSE /\ ret' = NoRet
                /\ tx' = [tx EXCEPT ![t] =
                            [IdleTx EXCEPT !.op = op, !.pc = "ledger",
                                           !.order_id = orderID]]
                /\ IF op = "InternalCancelOrder"
                   THEN /\ order_expiration_queue' =
                             [order_expiration_queue EXCEPT ![orderID] = "unacked"]
                        /\ UNCHANGED <<channel, failures>>
                   ELSE UNCHANGED broker

PayOrder(t, orderID) == LoadOrder(t, "PayOrder", orderID)

CancelOrder(t, orderID) == LoadOrder(t, "CancelOrder", orderID)

\* The handler of POST /internal/v1/order/{id}/cancel.
InternalCancelOrder(t, orderID) == LoadOrder(t, "InternalCancelOrder", orderID)

\* The rest of the transaction: CommitReservationsTx / ReleaseReservationsTx
\* (a locking read of the order's fragments, then per fragment the row update
\* and the delete), UpdateOrderStatusTx and CommitTx.  The locks it takes are
\* held to the commit that ends the step.
ApplyOrder(t) ==
  /\ tx[t].op \in {"PayOrder", "CancelOrder", "InternalCancelOrder"}
  /\ tx[t].pc = "ledger"
  /\ UNCHANGED <<warehouse, lastInsertId, trip>>
  /\ UNCHANGED <<expiration, probes>>
  /\ \/ /\ MayFail(tx[t].op)
        /\ RollbackTx(t) /\ Done(t, tx[t].op, tx[t].order_id, ErrInternal, 0)
        /\ Reply(tx[t].op, tx[t].order_id, ErrInternal)
     \/ LET reservations == GetReservationsByOrderTx(t, tx[t].order_id)
            locks == {<<f.warehouse_id, f.product_id>> : f \in reservations}
            led == IF tx[t].op = "PayOrder"
                   THEN CommitReservationsTx(reservations)
                   ELSE ReleaseReservationsTx(reservations)
            status == IF tx[t].op = "PayOrder" THEN OrderStatusCompleted
                      ELSE OrderStatusCanceled
        IN /\ LockFree(t, locks)
           /\ CommitTx(t, led.upd, {}, led.used, led.del, tx[t].order_id, status,
                       orders[tx[t].order_id].items)
           /\ Done(t, tx[t].op, tx[t].order_id, Successful, 0)
           /\ Reply(tx[t].op, tx[t].order_id, Successful)

(* ---- specification ---- *)
\* client.Do has not returned yet.
NoResponse == [err |-> FALSE, StatusCode |-> 0]

\* At start the clock is at 0, nothing was inserted or published, and
\* neither the repository nor the cancel API has been called.
Quiet ==
  /\ now = 0
  /\ order_row = [o \in OrderIDs |-> [user_id |-> 0, expires_at |-> 0]]
  /\ message = [o \in OrderIDs |-> NoMessage]
  /\ publish_calls = [o \in OrderIDs |-> 0]
  /\ calls = <<>>
  /\ response = NoResponse

TotalStock(ws) ==
  SumSeq([i \in 1..NumWarehouses |->
            SumSeq([p \in 1..NumProducts |-> ws[<<i, p>>].stock])])

Init ==
  /\ warehouse \in [Warehouses -> {WarehouseStatusActive, WarehouseStatusInactive}]
  /\ warehouse[1] = WarehouseStatusActive
  /\ warehouse_stock \in [Rows -> [stock : 0..MaxStock, reserved : {0}]]
  /\ TotalStock(warehouse_stock) <= MaxUnits
  /\ stock_reservation = {}
  /\ orders = [o \in OrderIDs |-> NoOrder]
  /\ lastInsertId = 0
  /\ tx = [t \in Workers |-> IdleTx]
  /\ ret = NoRet
  /\ journal = <<>>
  /\ trip = NoTrip
  /\ order_expiration_queue = [o \in OrderIDs |-> "none"]
  /\ channel = "open"
  /\ failures = 0
  /\ Quiet

Next ==
  \/ \E t \in Workers, u \in Users, req \in OrderRequests :
       RestHandler_CreateOrder(t, u, req)
  \/ \E t \in Workers : ReserveItem(t)
  \/ \E t \in Workers : LockWait(t)
  \/ \E t \in Workers, o \in OrderIDs : PayOrder(t, o)
  \/ \E t \in Workers, o \in OrderIDs : CancelOrder(t, o)
  \/ \E t \in Workers : ApplyOrder(t)

Spec == Init /\ [][Next]_vars

(* ---- the expiration path: broker, consumer, internal cancel ---- *)
\* One iteration of the loop of Consumer.Start up to the call of the cancel
\* API: a message that is ready is delivered (prefetch 1: no other message is
\* unacknowledged) and the handler of the internal route starts.
\* The key of the internal routes, cfg.InternalAPIKey, which main hands both
\* to the transport and to the consumer.
InternalAPIKey == "internal-api-key"

Consumer_apiKey_other == "another-key"

Consumer_apiKey == InternalAPIKey

\* The Authorization header callCancelOrderAPI sends.
Authorization(apiKey) == <<"Bearer", apiKey>>

\* InternalMiddleware: TRUE when the request goes on to the handler, FALSE
\* when it is answered 403 Forbidden.
InternalMiddleware(apiKey, header) == header = <<"Bearer", apiKey>>

StatusForbidden == 403

\* The request of the consumer is stopped by InternalMiddleware: no handler
\* runs, and the consumer treats the status as it does any other.
Forbidden(orderID) ==
  /\ order_expiration_queue' =
       [order_expiration_queue EXCEPT ![orderID] =
          IF callCancelOrderAPI(StatusForbidden) THEN "acked" ELSE "ready"]
  /\ ret' = [NoRet EXCEPT !.op = "InternalMiddleware", !.order_id = orderID,
                          !.result = "Forbidden"]
  /\ UNCHANGED <<warehouse, warehouse_stock, stock_reservation, orders,
                 lastInsertId, tx, journal, trip, channel, failures>>
  /\ UNCHANGED <<expiration, probes>>

Consumer_Start(t, orderID) ==
  /\ order_expiration_queue[orderID] = "ready"
  /\ \A o \in OrderIDs : order_expiration_queue[o] # "unacked"
  /\ IF InternalMiddleware(InternalAPIKey, Authorization(Consumer_apiKey))
     THEN InternalCancelOrder(t, orderID)
     ELSE Forbidden(orderID)

\* The HTTP client of callCancelOrderAPI gives up (Timeout: 10 s) while the
\* handler is still running: client.Do returns an error, the message is
\* requeued, and the handler goes on as a cancel whose response nobody reads.
ClientTimeout(t) ==
  /\ tx[t].op = "InternalCancelOrder" /\ tx[t].pc = "ledger"
  /\ failures < MaxFailures
  /\ failures' = failures + 1
  /\ order_expiration_queue' =
       [order_expiration_queue EXCEPT ![tx[t].order_id] = "ready"]
  /\ tx' = [tx EXCEPT ![t].op = "CancelOrder"]
  /\ ret' = NoRet
  /\ UNCHANGED <<warehouse, warehouse_stock, stock_reservation, orders,
                 lastInsertId, journal, trip, channel>>
  /\ UNCHANGED <<expiration, probes>>

\* The publisher's channel is closed by the broker or the network; the
\* Publisher never reopens it.
ChannelClosed ==
  /\ channel = "open"
  /\ channel' = "closed"
  /\ ret' = NoRet
  /\ UNCHANGED <<warehouse, warehouse_stock, stock_reservation, orders,
                 lastInsertId, tx, journal, trip, order_expiration_queue, failures>>
  /\ UNCHANGED <<expiration, probes>>

\* The server with MaxUnits units in stock and one more order to come: the
\* order ids below MaxOrders were drawn by creates that were rolled back.
ExpiryInit ==
  /\ warehouse \in [Warehouses -> {WarehouseStatusActive, WarehouseStatusInactive}]
  /\ warehouse[1] = WarehouseStatusActive
  /\ warehouse_stock \in [Rows -> [stock : 0..MaxStock, reserved : {0}]]
  /\ TotalStock(warehouse_stock) = MaxUnits
  /\ stock_reservation = {}
  /\ orders = [o \in OrderIDs |-> NoOrder]
  /\ lastInsertId = MaxOrders - 1
  /\ tx = [t \in Workers |-> IdleTx]
  /\ ret = NoRet
  /\ journal = <<>>
  /\ trip = NoTrip
  /\ order_expiration_queue = [o \in OrderIDs |-> "none"]
  /\ channel = "open"
  /\ failures = 0
  /\ Quiet

\* The order ids buyers pay or cancel here: those of orders that can exist.
ExpiryOrders == {o \in OrderIDs : o >= MaxOrders}

\* With a single create in flight no locking read of ReserveStockTx meets a
\* locked row, so LockWait has no part here.
ExpiryNext ==
  \/ \E t \in Workers, u \in Users, req \in OrderRequests :
       RestHandler_CreateOrder(t, u, req)
  \/ \E t \in Workers : ReserveItem(t)
  \/ \E t \in Workers, o \in ExpiryOrders : PayOrder(t, o)
  \/ \E t \in Workers, o \in ExpiryOrders : CancelOrder(t, o)
  \/ \E t \in Workers : ApplyOrder(t)
  \/ \E t \in Workers, o \in OrderIDs : Consumer_Start(t, o)
  \/ \E t \in Workers : ClientTimeout(t)
  \/ ChannelClosed

\* The server finishes the requests it has accepted, and the broker delivers
\* every message that is ready to the consumer, whose call is served whatever
\* else the server is doing (each request runs in its own goroutine).
ExpiryFairness ==
  /\ \A t \in Workers : WF_vars(ReserveItem(t)) /\ WF_vars(ApplyOrder(t))
  /\ \A o \in OrderIDs : SF_vars(\E t \in Workers : Consumer_Start(t, o))

SpecExpiry == ExpiryInit /\ [][ExpiryNext]_vars /\ ExpiryFairness

(* ---- the expiration path with the clock ---- *)
\* Time passes.
Tick ==
  /\ now < MaxTime
  /\ now' = now + 1
  /\ ret' = NoRet
  /\ UNCHANGED <<warehouse, warehouse_stock, stock_reservation, orders,
                 lastInsertId, tx, journal, trip>>
  /\ UNCHANGED <<broker, order_row, message, publish_calls, probes>>

\* The exchange has routed the message of the order to the queue (its delay
\* is over) and the consumer takes it.
Delivery(t, orderID) ==
  /\ now >= DueAt(message[orderID])
  /\ Consumer_Start(t, orderID)

\* The rows at the start: one unit of every product in every warehouse.
StockAtStart == [r \in Rows |-> [stock |-> 1, reserved |-> 0]]

\* The server with one unit of every product in every warehouse, all
\* warehouses active, and one more order to come.
ClockInit ==
  /\ warehouse = [w \in Warehouses |-> WarehouseStatusActive]
  /\ warehouse_stock = StockAtStart
  /\ stock_reservation = {}
  /\ orders = [o \in OrderIDs |-> NoOrder]
  /\ lastInsertId = MaxOrders - 1
  /\ tx = [t \in Workers |-> IdleTx]
  /\ ret = NoRet
  /\ journal = <<>>
  /\ trip = NoTrip
  /\ order_expiration_queue = [o \in OrderIDs |-> "none"]
  /\ channel = "open"
  /\ failures = 0
  /\ Quiet

\* Buyers place orders until one has got its order id.
ClockNext ==
  \/ \E t \in Workers, u \in Users, req \in OrderRequests :
       lastInsertId < MaxOrders /\ RestHandler_CreateOrder(t, u, req)
  \/ \E t \in Workers : ReserveItem(t)
  \/ \E t \in Workers, o \in ExpiryOrders : PayOrder(t, o)
  \/ \E t \in Workers : ApplyOrder(t)
  \/ \E t \in Workers, o \in OrderIDs : Delivery(t, o)
  \/ Tick

SpecClock == ClockInit /\ [][ClockNext]_vars

(* ---- the consumer on its own, against any cancel API ---- *)
\* A body that is not the JSON of an OrderExpirationMessage.
Malformed == [raw |-> "not json"]

\* json.Unmarshal(msg.Body, &orderMsg).
Unmarshal_lenient(body) ==
  IF DOMAIN body = DOMAIN NoMessage.body
  THEN [err |-> FALSE, orderMsg |-> body]
  ELSE [err |-> FALSE, orderMsg |-> NoMessage.body]

Unmarshal(body) ==
  IF DOMAIN body = DOMAIN NoMessage.body
  THEN [err |-> FALSE, orderMsg |-> body]
  ELSE [err |-> TRUE, orderMsg |-> NoMessage.body]

\* What client.Do can return: an error (no connection, timeout) or a
\* response with any status code.
StatusCodes == 100..599

Responses ==
  {[err |-> TRUE, StatusCode |-> 0]}
    \cup {[err |-> FALSE, StatusCode |-> c] : c \in StatusCodes}

\* channel.Qos(1, 0, false): the broker keeps at most prefetchCount
\* deliveries of the consumer unacknowledged.
prefetchCount_two == 1 + 1

prefetchCount == 1

Unacked == {o \in OrderIDs : order_expiration_queue[o] = "unacked"}

\* "case msg := <-msgs": the broker hands the consumer a message.
Consumer_Take(o) ==
  /\ order_expiration_queue[o] = "ready"
  /\ Cardinality(Unacked) < prefetchCount
  /\ order_expiration_queue' = [order_expiration_queue EXCEPT ![o] = "unacked"]
  /\ response' = NoResponse
  /\ UNCHANGED <<warehouse, warehouse_stock, stock_reservation, orders,
                 lastInsertId, tx, ret, journal, trip>>
  /\ UNCHANGED <<channel, failures, expiration, calls>>

\* The body of the loop for the message taken, with resp what client.Do
\* returns: a body that does not decode is acknowledged without a call; else
\* the cancel API is called, and the message is requeued (Nack) when
\* callCancelOrderAPI returns an error and acknowledged when it returns nil.
\* Failing calls end after MaxFailures of them.
Consumer_Handle(o, resp) ==
  /\ order_expiration_queue[o] = "unacked"
  /\ LET dec == Unmarshal(message[o].body)
         err == resp.err \/ ~callCancelOrderAPI(resp.StatusCode)
     IN IF dec.err
        THEN /\ order_expiration_queue' =
                  [order_expiration_queue EXCEPT ![o] = "acked"]
             /\ UNCHANGED <<failures, calls, response>>
        ELSE /\ err => failures < MaxFailures
             /\ calls' = Append(calls, <<"callCancelOrderAPI", dec.orderMsg.OrderID>>)
             /\ response' = resp
             /\ failures' = IF err THEN failures + 1 ELSE failures
             /\ order_expiration_queue' =
                  [order_expiration_queue EXCEPT ![o] =
                     IF err THEN "ready" ELSE "acked"]
  /\ UNCHANGED <<warehouse, warehouse_stock, stock_reservation, orders,
                 lastInsertId, tx, ret, journal, trip>>
  /\ UNCHANGED <<channel, expiration>>

\* The durable queue holds one message per slot, each the message of an
\* order or a body that is not JSON, all ready for delivery.
ConsumerInit ==
  /\ warehouse = [w \in Warehouses |-> WarehouseStatusActive]
  /\ warehouse_stock = [r \in Rows |-> [stock |-> 1, reserved |-> 0]]
  /\ stock_reservation = {}
  /\ orders = [o \in OrderIDs |-> NoOrder]
  /\ lastInsertId = 0
  /\ tx = [t \in Workers |-> IdleTx]
  /\ ret = NoRet
  /\ journal = <<>>
  /\ trip = NoTrip
  /\ order_expiration_queue = [o \in OrderIDs |-> "ready"]
  /\ channel = "open"
  /\ failures = 0
  /\ now = 0
  /\ order_row = [o \in OrderIDs |-> [user_id |-> 0, expires_at |-> 0]]
  /\ message \in [OrderIDs -> {[body |-> b, x_delay |-> 0, at |-> 0] :
                                 b \in {Malformed}
                                   \cup {[OrderID |-> o, UserID |-> u, ExpiresAt |-> 0] :
                                           o \in OrderIDs, u \in Users}}]
  /\ publish_calls = [o \in OrderIDs |-> 0]
  /\ calls = <<>>
  /\ response = NoResponse

ConsumerNext ==
  \/ \E o \in OrderIDs : Consumer_Take(o)
  \/ \E o \in OrderIDs, resp \in Responses : Consumer_Handle(o, resp)

\* The broker delivers every message that stays or becomes ready again, and
\* the loop of the consumer keeps running.
ConsumerFairness ==
  /\ \A o \in OrderIDs : SF_vars(Consumer_Take(o))
  /\ \A o \in OrderIDs : WF_vars(\E resp \in Responses : Consumer_Handle(o, resp))

SpecConsumer == ConsumerInit /\ [][ConsumerNext]_vars /\ ConsumerFairness

(* ---- the operations of application/order call by call ---- *)
\* The repository calls of an operation in the order of its code when every
\* call succeeds; n is the number of items of a CreateOrder request.
PerItem(n, name) == [i \in 1..n |-> name]

Sequence_statusFirst(op, n) ==
  IF op = "CreateOrder"
  THEN <<"BeginTx">> \o PerItem(n, "GetTotalAvailableStockTx")
         \o <<"InsertOrderTx", "InsertOrderItemsTx">>
         \o PerItem(n, "ReserveStockTx") \o <<"CommitTx">>
  ELSE <<"BeginTx", "GetOrderDetailTx", "UpdateOrderStatusTx",
         IF op = "PayOrder" THEN "CommitReservationsTx" ELSE "ReleaseReservationsTx",
         "CommitTx">>

Sequence(op, n) ==
  IF op = "CreateOrder"
  THEN <<"BeginTx">> \o PerItem(n, "GetTotalAvailableStockTx")
         \o <<"InsertOrderTx", "InsertOrderItemsTx">>
         \o PerItem(n, "ReserveStockTx") \o <<"CommitTx">>
  ELSE <<"BeginTx", "GetOrderDetailTx",
         IF op = "PayOrder" THEN "CommitReservationsTx" ELSE "ReleaseReservationsTx",
         "UpdateOrderStatusTx", "CommitTx">>

Has(seq, x) == \E i \in DOMAIN seq : seq[i] = x

Count(seq, x) == Cardinality({i \in DOMAIN seq : seq[i] = x})

\* "defer func() { if !committed { RollbackTx } }": registered once BeginTx
\* has returned a transaction.
Deferred_always(name) == <<"RollbackTx">>

Deferred(name) == IF name = "BeginTx" THEN <<>> ELSE <<"RollbackTx">>

\* The requests the handler passes on to CreateOrder.
StepRequests == {req \in OrderRequests : ValidateStruct(req)}

\* A caller starts an operation; one operation runs at a time.  CreateOrder
\* returns InvalidRequest for an empty item list before it calls anything.
StepBegin(op, orderID, req) ==
  /\ \A t \in Workers : tx[t].pc = "idle"
  /\ op = "CreateOrder" => orderID = 0
  /\ op # "CreateOrder" => req = <<>>
  /\ calls' = <<>>
  /\ IF op = "CreateOrder" /\ EmptyItems(req)
     THEN Done(1, op, 0, ErrInvalidRequest, 0)
     ELSE /\ tx' = [tx EXCEPT ![1] = [IdleTx EXCEPT !.op = op, !.pc = "step",
                                                   !.order_id = orderID,
                                                   !.items = req]]
          /\ ret' = NoRet
  /\ UNCHANGED <<warehouse, warehouse_stock, stock_reservation, orders,
                 lastInsertId, journal, trip>>
  /\ UNCHANGED <<broker, expiration, response>>

\* The item of the request a call of GetTotalAvailableStockTx or
\* ReserveStockTx is made for, k being the position of the call.
ItemOf(name, k, n) == IF name = "ReserveStockTx" THEN k - (n + 3) ELSE k - 1

\* The next repository call of the operation in flight.  It returns an
\* error of the store (fails), or its own result, on which the operation
\* returns or goes on; the writes of the calls made are kept in the
\* transaction and reach the tables with CommitTx.  ord is the row order of
\* the locking read of ReserveStockTx.
StepCall(fails) ==
  /\ tx[1].pc = "step"
  /\ \E ord \in Perms(ActiveWarehouses) :
     LET op == tx[1].op
         orderID == tx[1].order_id
         n == Len(tx[1].items)
         k == tx[1].idx + 1
         name == Sequence(op, n)[k]
         item == tx[1].items[ItemOf(name, k, n)]
         res == ReserveStockTx(View(1), ord,
                               [OrderID |-> orderID, ProductID |-> item.ProductID,
                                Quantity |-> item.Quantity,
                                Item |-> ItemOf(name, k, n)])
         reservations == GetReservationsByOrderTx(1, orderID)
         led == IF name = "CommitReservationsTx"
                THEN CommitReservationsTx(reservations)
                ELSE ReleaseReservationsTx(reservations)
         consumed == IF Has(calls, "CommitReservationsTx")
                        \/ Has(calls, "ReleaseReservationsTx")
                     THEN reservations ELSE {}
         status == IF op = "CreateOrder" THEN OrderStatusPending
                   ELSE IF ~Has(calls, "UpdateOrderStatusTx") THEN orders[orderID].status
                   ELSE IF op = "PayOrder" THEN OrderStatusCompleted
                   ELSE OrderStatusCanceled
         err == IF fails THEN ErrInternal
                ELSE IF name = "GetOrderDetailTx" /\ GetOrderDetailTx(orderID) # Successful
                THEN ErrInternal
                ELSE IF name = "GetOrderDetailTx" /\ ~IsPending(orders[orderID])
                THEN ErrInvalidOrderStatus
                ELSE IF name = "GetTotalAvailableStockTx"
                        /\ GetTotalAvailableStockTx(item.ProductID) < item.Quantity
                THEN ErrInsufficientStock
                ELSE IF name = "ReserveStockTx" /\ res.err # Successful
                THEN ReserveError(res.err)
                ELSE Successful
     IN /\ name = "InsertOrderTx" /\ err = Successful => lastInsertId < MaxOrders
        /\ IF err # Successful
           THEN /\ calls' = Append(calls, name) \o Deferred(name)
                /\ RollbackTx(1)
                /\ Done(1, op, orderID, err, 0)
                /\ UNCHANGED <<lastInsertId, order_row, order_expiration_queue,
                               message, publish_calls>>
           ELSE IF name = "CommitTx"
           THEN /\ calls' = Append(calls, name)
                /\ CommitTx(1, tx[1].upd, tx[1].ins, consumed, consumed, orderID,
                            status,
                            IF op = "CreateOrder" THEN tx[1].items
                            ELSE orders[orderID].items)
                /\ Done(1, op, orderID, Successful, 0)
                /\ UNCHANGED <<lastInsertId, order_row>>
                /\ IF op = "CreateOrder"
                   THEN /\ order_expiration_queue' = PublishOrderExpiration(orderID)
                        /\ message' =
                             IF channel = "open"
                             THEN [message EXCEPT ![orderID] =
                                     Publishing(
                                       [OrderID |-> orderID,
                                        UserID |-> order_row[orderID].user_id,
                                        ExpiresAt |-> order_row[orderID].expires_at])]
                             ELSE message
                        /\ publish_calls' = [publish_calls EXCEPT ![orderID] = @ + 1]
                   ELSE UNCHANGED <<order_expiration_queue, message, publish_calls>>
           ELSE /\ calls' = Append(calls, name)
                /\ ret' = NoRet
                /\ UNCHANGED <<warehouse_stock, stock_reservation, orders, journal>>
                /\ UNCHANGED <<order_expiration_queue, message, publish_calls>>
                /\ IF name = "InsertOrderTx"
                   THEN /\ lastInsertId' = lastInsertId + 1
                        /\ order_row' = [order_row EXCEPT ![lastInsertId + 1] =
                                           [user_id |-> 1,
                                            expires_at |-> now + OrderExpiration]]
                        /\ tx' = [tx EXCEPT ![1].idx = k,
                                            ![1].order_id = lastInsertId + 1]
                   ELSE /\ UNCHANGED <<lastInsertId, order_row>>
                        /\ tx' = [tx EXCEPT
                                    ![1].idx = k,
                                    ![1].upd =
                                      IF name = "ReserveStockTx" THEN AddUpd(@, res.upd)
                                      ELSE IF name \in {"CommitReservationsTx",
                                                        "ReleaseReservationsTx"}
                                      THEN AddUpd(@, led.upd)
                                      ELSE @,
                                    ![1].ins =
                                      IF name = "ReserveStockTx" THEN @ \cup res.ins
                                      ELSE @]
  /\ UNCHANGED <<warehouse, trip, channel, failures, now, response>>

\* The database after the first order: every row holds the same stock,
\* order 1 is Pending with one unit of a product reserved in one warehouse,
\* its message is published, and the next order is yet to come.
StepsInit ==
  \E p \in Products, w \in Warehouses, st \in 1..MaxStock :
    LET frag == [id |-> <<1, 1, w>>, order_id |-> 1, warehouse_id |-> w,
                 product_id |-> p, quantity |-> 1]
        body == [OrderID |-> 1, UserID |-> 1, ExpiresAt |-> OrderExpiration]
    IN /\ warehouse = [x \in Warehouses |-> WarehouseStatusActive]
       /\ warehouse_stock = [r \in Rows |->
                               [stock |-> st,
                                reserved |-> IF r = <<w, p>> THEN 1 ELSE 0]]
       /\ stock_reservation = {frag}
       /\ orders = [o \in OrderIDs |->
                      IF o = 1
                      THEN [status |-> OrderStatusPending,
                            items |-> <<[ProductID |-> p, Quantity |-> 1]>>]
                      ELSE NoOrder]
       /\ lastInsertId = 1
       /\ tx = [t \in Workers |-> IdleTx]
       /\ ret = NoRet
       /\ journal = [id \in {frag.id} |-> [commit |-> 0, release |-> 0]]
       /\ trip = NoTrip
       /\ order_expiration_queue = [o \in OrderIDs |-> IF o = 1 THEN "ready" ELSE "none"]
       /\ channel = "open"
       /\ failures = 0
       /\ now = 0
       /\ order_row = [o \in OrderIDs |->
                         IF o = 1 THEN [user_id |-> 1, expires_at |-> OrderExpiration]
                         ELSE [user_id |-> 0, expires_at |-> 0]]
       /\ message = [o \in OrderIDs |->
                       IF o = 1 THEN [body |-> body, x_delay |-> ExpirationMs, at |-> 0]
                       ELSE NoMessage]
       /\ publish_calls = [o \in OrderIDs |-> IF o = 1 THEN 1 ELSE 0]
       /\ calls = <<>>
       /\ response = NoResponse

StepsNext ==
  \/ \E op \in {"PayOrder", "CancelOrder"}, o \in OrderIDs : StepBegin(op, o, <<>>)
  \/ \E req \in StepRequests : StepBegin("CreateOrder", 0, req)
  \/ \E fails \in BOOLEAN : StepCall(fails)

SpecSteps == StepsInit /\ [][StepsNext]_vars

(* ---- application/warehouse: DeactivateWarehouse beside CreateOrder ---- *)
ErrWarehouseHasReservedStock == "warehouse has reserved stock"

\* The repository calls of the warehouse operations.  They are given no
\* transaction: each is a statement of its own on the connection pool.
GetWarehouseByID(warehouseID) == warehouseID \in Warehouses

CheckReservedStock(warehouseID) ==
  SumSeq([p \in 1..NumProducts |-> warehouse_stock[<<warehouseID, p>>].reserved])

UpdateWarehouseStatus(warehouseID, status) ==
  [warehouse EXCEPT ![warehouseID] = status]

\* DeactivateWarehouse up to the check of the reserved stock: the warehouse
\* is looked up, then its reserved stock is read (committed data); with
\* none reserved the operation goes on to the update.
DeactivateWarehouse(t, warehouseID) ==
  /\ Serves(t)
  /\ UNCHANGED <<warehouse, warehouse_stock, stock_reservation, orders,
                 lastInsertId, journal, trip>>
  /\ UNCHANGED <<broker, expiration, probes>>
  /\ \/ Done(t, "DeactivateWarehouse", 0, ErrInternal, 0)
     \/ /\ ~GetWarehouseByID(warehouseID)
        /\ Done(t, "DeactivateWarehouse", 0, ErrNotFound, 0)
     \/ /\ GetWarehouseByID(warehouseID)
        /\ IF CheckReservedStock(warehouseID) > 0
           THEN Done(t, "DeactivateWarehouse", 0, ErrWarehouseHasReservedStock, 0)
           ELSE /\ ret' = NoRet
                /\ tx' = [tx EXCEPT ![t] =
                            [IdleTx EXCEPT !.op = "DeactivateWarehouse",
                                           !.pc = "update",
                                           !.warehouse_id = warehouseID]]

\* "Update status to inactive": the UPDATE of the warehouse row waits for
\* the lock a locking read of ReserveStockTx holds on it.
DeactivateWarehouse_Update(t) ==
  /\ tx[t].op = "DeactivateWarehouse" /\ tx[t].pc = "update"
  /\ UNCHANGED <<warehouse_stock, stock_reservation, orders,
                 lastInsertId, journal, trip>>
  /\ UNCHANGED <<broker, expiration, probes>>
  /\ \/ /\ Done(t, "DeactivateWarehouse", 0, ErrInternal, 0)
        /\ UNCHANGED warehouse
     \/ /\ LockFree(t, {WarehouseRow(tx[t].warehouse_id)})
        /\ warehouse' = UpdateWarehouseStatus(tx[t].warehouse_id,
                                              WarehouseStatusInactive)
        /\ Done(t, "DeactivateWarehouse", 0, Successful, 0)

\* The server with every warehouse active, MaxUnits units in stock, none
\* reserved, and one more order to come.
WarehouseInit ==
  /\ warehouse = [w \in Warehouses |-> WarehouseStatusActive]
  /\ warehouse_stock \in [Rows -> [stock : 0..MaxStock, reserved : {0}]]
  /\ TotalStock(warehouse_stock) = MaxUnits
  /\ stock_reservation = {}
  /\ orders = [o \in OrderIDs |-> NoOrder]
  /\ lastInsertId = MaxOrders - 1
  /\ tx = [t \in Workers |-> IdleTx]
  /\ ret = NoRet
  /\ journal = <<>>
  /\ trip = NoTrip
  /\ order_expiration_queue = [o \in OrderIDs |-> "none"]
  /\ channel = "open"
  /\ failures = 0
  /\ Quiet

WarehouseNext ==
  \/ \E t \in Workers, u \in Users, req \in OrderRequests :
       RestHandler_CreateOrder(t, u, req)
  \/ \E t \in Workers : ReserveItem(t)
  \/ \E t \in Workers, o \in ExpiryOrders : CancelOrder(t, o)
  \/ \E t \in Workers : ApplyOrder(t)
  \/ \E t \in Workers, w \in 0..NumWarehouses : DeactivateWarehouse(t, w)
  \/ \E t \in Workers : DeactivateWarehouse_Update(t)

SpecWarehouse == WarehouseInit /\ [][WarehouseNext]_vars

(* ---- the public routes of PayOrder and CancelOrder ---- *)
\* The handlers of POST /public/v1/order/{id}/pay and .../cancel: the user id
\* of the session is read from the context (0: there is none) and the
\* operation is called with the order id.
RestHandler_PayOrder(t, userID, id) ==
  IF userID = 0
  THEN /\ Serves(t)
       /\ Done(t, "RestHandler.PayOrder", 0, ErrUnauthorize, 0)
       /\ UNCHANGED <<warehouse, warehouse_stock, stock_reservation, orders,
                      journal, trip, lastInsertId>>
       /\ UNCHANGED <<broker, expiration, probes>>
  ELSE PayOrder(t, id)

RestHandler_CancelOrder(t, userID, id) ==
  IF userID = 0
  THEN /\ Serves(t)
       /\ Done(t, "RestHandler.CancelOrder", 0, ErrUnauthorize, 0)
       /\ UNCHANGED <<warehouse, warehouse_stock, stock_reservation, orders,
                      journal, trip, lastInsertId>>
       /\ UNCHANGED <<broker, expiration, probes>>
  ELSE CancelOrder(t, id)

\* A user with a valid session who has placed no order.
Stranger == NumUsers + 1

\* The buyers in Users place orders; the calls to pay or cancel come without
\* a session or from the session of Stranger.
OwnerNext ==
  \/ \E t \in Workers, u \in Users, req \in OrderRequests :
       RestHandler_CreateOrder(t, u, req)
  \/ \E t \in Workers : ReserveItem(t)
  \/ \E t \in Workers, u \in {0, Stranger}, o \in ExpiryOrders :
       RestHandler_PayOrder(t, u, o)
  \/ \E t \in Workers, u \in {0, Stranger}, o \in ExpiryOrders :
       RestHandler_CancelOrder(t, u, o)
  \/ \E t \in Workers : ApplyOrder(t)

SpecOwner == ExpiryInit /\ [][OwnerNext]_vars

(* ---- orders placed, paid and cancelled on a known stock ---- *)
StockNext ==
  \/ \E t \in Workers, u \in Users, req \in OrderRequests :
       RestHandler_CreateOrder(t, u, req)
  \/ \E t \in Workers : ReserveItem(t)
  \/ \E t \in Workers, o \in ExpiryOrders : PayOrder(t, o)
  \/ \E t \in Workers, o \in ExpiryOrders : CancelOrder(t, o)
  \/ \E t \in Workers : ApplyOrder(t)

SpecStock == ClockInit /\ [][StockNext]_vars

(* ---- the application operation called directly ---- *)
\* The requests a caller of the application operation can pass: those of the
\* handler, and one-item requests with a negative quantity.
AppRequests ==
  OrderRequests
    \cup {<<[ProductID |-> p, Quantity |-> 0 - q]>> : p \in Products, q \in 1..MaxQuantity}

AppNext ==
  \/ \E t \in Workers, u \in Users, req \in AppRequests : CreateOrder(t, u, req)
  \/ \E t \in Workers : ReserveItem(t)
  \/ \E t \in Workers : LockWait(t)

SpecApp == Init /\ [][AppNext]_vars

(* ---- the ledger on its own: allocate, then release or commit ---- *)
\* The "reserve stock per item" loop of CreateOrder run to its end inside one
\* transaction: the error of the first item that cannot be allocated, else the
\* relative updates and the fragments of all items.
RECURSIVE ReserveItems(_, _, _, _, _, _)
ReserveItems(ws, ord, orderID, items, idx, acc) ==
  IF idx > Len(items) THEN [err |-> Successful, upd |-> acc.upd, ins |-> acc.ins]
  ELSE LET res == ReserveStockTx(AddUpd(ws, acc.upd), ord,
                                 [OrderID |-> orderID,
                                  ProductID |-> items[idx].ProductID,
                                  Quantity |-> items[idx].Quantity,
                                  Item |-> idx])
       IN IF res.err # Successful
          THEN [err |-> res.err, upd |-> ZeroUpd, ins |-> {}]
          ELSE ReserveItems(ws, ord, orderID, items, idx + 1,
                            [upd |-> AddUpd(acc.upd, res.upd),
                             ins |-> acc.ins \cup res.ins])

\* Rows with any 0 <= reserved <= stock; what is reserved at the start is
\* held by fragments of an earlier order (order 0).
LedgerInit ==
  /\ warehouse \in [Warehouses -> {WarehouseStatusActive, WarehouseStatusInactive}]
  /\ warehouse[1] = WarehouseStatusActive
  /\ warehouse_stock \in [Rows -> [stock : 0..MaxStock, reserved : 0..MaxStock]]
  /\ \A r \in Rows : warehouse_stock[r].reserved <= warehouse_stock[r].stock
  /\ stock_reservation =
       {[id |-> <<0, r[2], r[1]>>, order_id |-> 0, warehouse_id |-> r[1],
         product_id |-> r[2], quantity |-> warehouse_stock[r].reserved] :
          r \in {x \in Rows : warehouse_stock[x].reserved > 0}}
  /\ orders = [o \in OrderIDs |-> NoOrder]
  /\ lastInsertId = 0
  /\ tx = [t \in Workers |-> IdleTx]
  /\ ret = NoRet
  /\ journal = <<>>
  /\ trip = NoTrip
  /\ order_expiration_queue = [o \in OrderIDs |-> "none"]
  /\ channel = "open"
  /\ failures = 0
  /\ Quiet

\* A successful allocation of a whole request for the next order.
Allocate(req) ==
  /\ trip.phase \in {"none", "released", "committed"}
  /\ trip.order_id < MaxOrders
  /\ \A i \in DOMAIN req : req[i].Quantity > 0
  /\ Len(req) > 0
  /\ \E ord \in Perms(ActiveWarehouses) :
       LET res == ReserveItems(warehouse_stock, ord, trip.order_id + 1, req, 1,
                               [upd |-> ZeroUpd, ins |-> {}])
       IN /\ res.err = Successful
          /\ warehouse_stock' = AddUpd(warehouse_stock, res.upd)
          /\ stock_reservation' = stock_reservation \cup res.ins
          /\ trip' = [phase |-> "allocated", order_id |-> trip.order_id + 1,
                      items |-> req, before |-> warehouse_stock, frags |-> res.ins]
  /\ UNCHANGED <<warehouse, orders, lastInsertId, tx, ret, journal>>
  /\ UNCHANGED <<broker, expiration, probes>>

\* ReleaseReservationsTx for the order just allocated.
ReleaseReservations ==
  /\ trip.phase = "allocated"
  /\ LET led == ReleaseReservationsTx(GetReservationsByOrderTx(1, trip.order_id))
     IN /\ warehouse_stock' = AddUpd(warehouse_stock, led.upd)
        /\ stock_reservation' = stock_reservation \ led.del
  /\ trip' = [trip EXCEPT !.phase = "released"]
  /\ UNCHANGED <<warehouse, orders, lastInsertId, tx, ret, journal>>
  /\ UNCHANGED <<broker, expiration, probes>>

\* CommitReservationsTx for the order just allocated.
CommitReservations ==
  /\ trip.phase = "allocated"
  /\ LET led == CommitReservationsTx(GetReservationsByOrderTx(1, trip.order_id))
     IN /\ warehouse_stock' = AddUpd(warehouse_stock, led.upd)
        /\ stock_reservation' = stock_reservation \ led.del
  /\ trip' = [trip EXCEPT !.phase = "committed"]
  /\ UNCHANGED <<warehouse, orders, lastInsertId, tx, ret, journal>>
  /\ UNCHANGED <<broker, expiration, probes>>

LedgerNext ==
  \/ \E req \in OrderRequests : Allocate(req)
  \/ ReleaseReservations
  \/ CommitReservations

SpecLedger == LedgerInit /\ [][LedgerNext]_vars

(* ---- properties ---- *)
Terminal(status) == status \in {OrderStatusCompleted, OrderStatusCanceled}

Pending(o) == orders[o].status = OrderStatusPending

\* C1: in every committed state every warehouse-stock row satisfies
\* 0 <= reserved <= stock.
C1_ReservedWithinStock ==
  \A r \in Rows :
    /\ 0 <= warehouse_stock[r].reserved
    /\ warehouse_stock[r].reserved <= warehouse_stock[r].stock

\* A paid order and an open order share a product whose row is fully reserved.
C1_Witness ==
  /\ \E o \in OrderIDs : orders[o].status = OrderStatusCompleted
  /\ \E o \in OrderIDs : Pending(o)
  /\ \E r \in Rows : warehouse_stock[r].stock > 0
                     /\ warehouse_stock[r].reserved = warehouse_stock[r].stock

\* C2: as long as orders were only created (none paid or cancelled, so the
\* stock of the active warehouses is still the initial availability S), the
\* quantities of the CreateOrder calls that succeeded sum to at most S per
\* product; a call that returns success has its whole request allocated, and a
\* call that got an order id and did not succeed for lack of stock returns
\* InsufficientStock with no order committed.
C2_NoOversell ==
  /\ (\A o \in OrderIDs : ~Terminal(orders[o].status)) =>
       \A p \in Products :
         SumSeq([o \in OrderIDs |-> Requested(orders[o].items, p)])
           <= SumSeq([w \in 1..NumWarehouses |->
                        IF warehouse[w] = WarehouseStatusActive
                        THEN warehouse_stock[<<w, p>>].stock ELSE 0])
  /\ (ret.op = "CreateOrder" /\ ret.result = Successful) =>
       /\ Pending(ret.order_id)
       /\ \A p \in Products :
            SumQty({f \in FragsOf(stock_reservation, ret.order_id) : f.product_id = p})
              = Requested(orders[ret.order_id].items, p)
  /\ (ret.op = "CreateOrder" /\ ret.order_id > 0 /\ ret.result # Successful) =>
       /\ ret.result \in {ErrInsufficientStock, ErrInternal}
       /\ ret.result = ErrInsufficientStock <=> ret.item > 0
       /\ orders[ret.order_id] = NoOrder

\* Two creates raced for the same stock: one holds it in a committed Pending
\* order, the other passed the advisory check, got an order id and was refused
\* by the locked allocation of its first item.
C2_Witness ==
  /\ ret.op = "CreateOrder" /\ ret.result = ErrInsufficientStock /\ ret.item = 1
  /\ lastInsertId = 2
  /\ \E o \in OrderIDs : Pending(o) /\ o # ret.order_id

\* C3 (as claimed): once an order's committed status is Completed or Canceled
\* it never changes again.
C3_TerminalIsFinal ==
  [][\A o \in OrderIDs :
       Terminal(orders[o].status) => orders'[o].status = orders[o].status]_vars

\* C4 (as claimed): of the PayOrder / CancelOrder calls racing on a Pending
\* order exactly one performs the transition and returns success: a call
\* returns success only if the order was still Pending when it committed.
C4_OneTransition ==
  [][(ret'.op \in {"PayOrder", "CancelOrder"} /\ ret'.result = Successful)
       => orders[ret'.order_id].status = OrderStatusPending]_vars

\* C5: every reservation fragment of a committed order is consumed at most
\* once: while it is in the table it has been consumed by nobody, and once it
\* is gone exactly one commit or one release (never both, never two) has
\* subtracted it from its row.
C5_ConsumedOnce ==
  \A id \in DOMAIN journal :
    IF \E f \in stock_reservation : f.id = id
    THEN journal[id].commit + journal[id].release = 0
    ELSE journal[id].commit + journal[id].release = 1

\* A PayOrder and a CancelOrder raced on one order, both returned success, and
\* the order's fragment was consumed once.
C5_Witness ==
  /\ ret.op = "CancelOrder" /\ ret.result = Successful
  /\ orders[ret.order_id].status = OrderStatusCanceled
  /\ \E id \in DOMAIN journal : id[1] = ret.order_id /\ journal[id].commit = 1

\* C6: a CreateOrder that returns an error commits nothing: the rows, the
\* reservation fragments and the orders are what they were, and no fragment
\* ever exists without its committed order.
C6_CreateAllOrNothing ==
  /\ [][(ret'.op = "CreateOrder" /\ ret'.result # Successful)
          => UNCHANGED tables]_vars
  /\ [](\A f \in stock_reservation : orders[f.order_id] # NoOrder)

\* A create was refused at its second item, after its first item had been
\* allocated, while another order holds reserved stock.
C6_Witness ==
  /\ ret.op = "CreateOrder" /\ ret.result = ErrInsufficientStock /\ ret.item = 2
  /\ orders[ret.order_id] = NoOrder
  /\ stock_reservation # {}

\* C7: PayOrder / CancelOrder on an order that is not Pending goes no further
\* than the status check, returns InvalidOrderStatus and changes neither the
\* order, nor the reservations, nor any row.
C7_NonPendingRejected ==
  [][/\ \A t \in Workers :
          (tx[t].pc = "idle" /\ tx'[t].pc = "ledger")
            => orders[tx'[t].order_id].status = OrderStatusPending
     /\ ret'.result = ErrInvalidOrderStatus =>
          /\ ret'.op \in {"PayOrder", "CancelOrder"}
          /\ Terminal(orders[ret'.order_id].status)
          /\ UNCHANGED <<tables, journal, tx>>]_vars

\* PayOrder after CancelOrder was rejected.
C7_Witness ==
  /\ ret.op = "PayOrder" /\ ret.result = ErrInvalidOrderStatus
  /\ orders[ret.order_id].status = OrderStatusCanceled

\* C8: CancelOrder twice in sequence: the call that finds the order Pending
\* at its commit sets it Canceled and takes exactly the order's allocated
\* quantity off reserved of each row (stock untouched, fragments gone); a call
\* made once the order is Canceled returns InvalidOrderStatus (unless the
\* store fails) and changes nothing, so nothing is released twice.
C8_CancelTwice ==
  /\ [][(ret'.op = "CancelOrder" /\ ret'.result = Successful
           /\ orders[ret'.order_id].status = OrderStatusPending) =>
          /\ orders'[ret'.order_id].status = OrderStatusCanceled
          /\ \A p \in Products :
               SumQty({f \in FragsOf(stock_reservation, ret'.order_id) : f.product_id = p})
                 = Requested(orders[ret'.order_id].items, p)
          /\ \A r \in Rows :
               /\ warehouse_stock'[r].stock = warehouse_stock[r].stock
               /\ warehouse_stock'[r].reserved =
                    warehouse_stock[r].reserved
                      - SumQty(FragsAt(FragsOf(stock_reservation, ret'.order_id), r))
          /\ FragsOf(stock_reservation', ret'.order_id) = {}]_vars
  /\ [][(tx' = tx /\ ret'.op = "CancelOrder"
           /\ orders[ret'.order_id].status = OrderStatusCanceled) =>
          /\ ret'.result \in {ErrInvalidOrderStatus, ErrInternal}
          /\ UNCHANGED <<tables, journal>>]_vars
  /\ [](\A id \in DOMAIN journal : journal[id].release <= 1)

\* The second CancelOrder on a cancelled order was rejected; the order's
\* fragments were released once.
C8_Witness ==
  /\ ret.op = "CancelOrder" /\ ret.result = ErrInvalidOrderStatus
  /\ orders[ret.order_id].status = OrderStatusCanceled
  /\ \E id \in DOMAIN journal : id[1] = ret.order_id /\ journal[id].release = 1

\* C9: a successful allocation followed by ReleaseReservations for the same
\* order restores every row's reserved to its value before the allocation,
\* leaves every row's stock unchanged and leaves no fragment of the order.
C9_AllocateReleaseRoundTrip ==
  trip.phase = "released" =>
    /\ \A r \in Rows :
         /\ warehouse_stock[r].reserved = trip.before[r].reserved
         /\ warehouse_stock[r].stock = trip.before[r].stock
    /\ FragsOf(stock_reservation, trip.order_id) = {}

\* An allocation split over two warehouses, on rows part of whose stock was
\* reserved before, has been released.
C9_Witness ==
  /\ trip.phase = "released"
  /\ Cardinality({f.warehouse_id : f \in trip.frags}) = 2
  /\ \E r \in Rows : trip.before[r].reserved > 0 /\ FragsAt(trip.frags, r) # {}

\* C10: a successful allocation followed by CommitReservations for the same
\* order takes each fragment's quantity off its row's stock, so the stock of
\* each product falls by exactly the quantity requested of it, returns every
\* row's reserved to its value before the allocation and leaves no fragment
\* of the order.
C10_AllocateCommitRoundTrip ==
  trip.phase = "committed" =>
    /\ \A r \in Rows :
         /\ warehouse_stock[r].stock
              = trip.before[r].stock - SumQty(FragsAt(trip.frags, r))
         /\ warehouse_stock[r].reserved = trip.before[r].reserved
    /\ \A p \in Products :
         SumSeq([w \in 1..NumWarehouses |->
                   trip.before[<<w, p>>].stock - warehouse_stock[<<w, p>>].stock])
           = Requested(trip.items, p)
    /\ FragsOf(stock_reservation, trip.order_id) = {}

\* An allocation split over two warehouses, on rows part of whose stock was
\* reserved before, has been committed.
C10_Witness ==
  /\ trip.phase = "committed"
  /\ Cardinality({f.warehouse_id : f \in trip.frags}) = 2
  /\ \E r \in Rows : trip.before[r].reserved > 0 /\ FragsAt(trip.frags, r) # {}

\* C11 (as claimed): a successful allocation is greedy over the active rows in
\* ascending warehouse order: the fragments of each product sum to exactly the
\* quantity requested of it, every fragment takes a positive quantity within
\* what its row had available and adds it to the row's reserved, and a row is
\* used only once every active warehouse with a lower id has no availability
\* of the product left.
C11_GreedyAscending ==
  trip.phase = "allocated" =>
    /\ \A p \in Products :
         SumQty({f \in trip.frags : f.product_id = p}) = Requested(trip.items, p)
    /\ \A f \in trip.frags :
         /\ f.quantity > 0
         /\ f.warehouse_id \in ActiveWarehouses
         /\ \A w \in ActiveWarehouses :
              w < f.warehouse_id =>
                warehouse_stock[<<w, f.product_id>>].stock
                  = warehouse_stock[<<w, f.product_id>>].reserved
    /\ \A r \in Rows :
         /\ warehouse_stock[r].stock = trip.before[r].stock
         /\ warehouse_stock[r].reserved
              = trip.before[r].reserved + SumQty(FragsAt(trip.frags, r))
         /\ warehouse_stock[r].reserved <= warehouse_stock[r].stock

\* C14: CreateOrder with an empty item list returns InvalidRequest at once:
\* no transaction is begun (no worker leaves idle), no order id is drawn and
\* neither the rows, nor the reservations, nor the orders change; and this is
\* the only way the operation returns InvalidRequest.
C14_EmptyItemsRejected ==
  [][/\ \A t \in Workers, u \in Users :
          CreateOrder(t, u, <<>>) =>
            /\ ret'.op = "CreateOrder" /\ ret'.result = ErrInvalidRequest
            /\ UNCHANGED <<tables, journal, lastInsertId, tx>>
     /\ (ret'.op = "CreateOrder" /\ ret'.result = ErrInvalidRequest) =>
          /\ UNCHANGED <<tables, journal, lastInsertId, tx>>
          /\ \E t \in Workers, u \in Users : CreateOrder(t, u, <<>>)]_vars

\* An empty request was rejected while an order holds reserved stock and
\* another create is in flight.
C14_Witness ==
  /\ ret.op = "CreateOrder" /\ ret.result = ErrInvalidRequest
  /\ stock_reservation # {}
  /\ \E t \in Workers : tx[t].pc = "reserve"

\* C15 (as claimed): the application operation rejects a request with a zero
\* or negative quantity: no committed order has such an item and no
\* reservation fragment has a zero or negative quantity.
C15_QuantityValidated ==
  /\ \A o \in OrderIDs :
       \A i \in DOMAIN orders[o].items : orders[o].items[i].Quantity > 0
  /\ \A f \in stock_reservation : f.quantity > 0
  /\ \A r \in Rows : warehouse_stock[r].reserved >= 0

\* The advisory availability of a product: stock - reserved summed over the
\* active warehouses.
Advisory(p) ==
  SumSeq([w \in 1..NumWarehouses |->
            IF warehouse[w] = WarehouseStatusActive
            THEN warehouse_stock[<<w, p>>].stock - warehouse_stock[<<w, p>>].reserved
            ELSE 0])

\* C16: a CreateOrder one of whose items asks for more than the advisory
\* availability of its product goes no further than the check: it draws no
\* order id, inserts nothing and allocates nothing (only requests all of
\* whose items are within the availability reach the reserve loop); the
\* InsufficientStock it returns comes with no order id, with the rows,
\* reservations and orders unchanged, and only when some product is short.
C16_AdvisoryCheckFailsFast ==
  [][/\ \A t \in Workers :
          (tx[t].pc = "idle" /\ tx'[t].pc = "reserve") =>
            \A i \in DOMAIN tx'[t].items :
              tx'[t].items[i].Quantity <= Advisory(tx'[t].items[i].ProductID)
     /\ (ret'.op = "CreateOrder" /\ ret'.order_id = 0
           /\ ret'.result = ErrInsufficientStock) =>
          /\ UNCHANGED <<tables, journal, lastInsertId, tx>>
          /\ \E p \in Products : Advisory(p) < MaxQuantity]_vars

\* A create was refused by the advisory check because another order holds
\* the stock in reservation.
C16_Witness ==
  /\ ret.op = "CreateOrder" /\ ret.order_id = 0
  /\ ret.result = ErrInsufficientStock
  /\ \E r \in Rows : warehouse_stock[r].stock > 0
                     /\ warehouse_stock[r].reserved = warehouse_stock[r].stock

\* C17: in every committed state every Pending order has complete
\* reservations: for each product, the quantities of the order's fragments
\* sum to the quantity the order's items ask of it.
C17_PendingFullyReserved ==
  \A o \in OrderIDs :
    Pending(o) =>
      \A p \in Products :
        SumQty({f \in FragsOf(stock_reservation, o) : f.product_id = p})
          = Requested(orders[o].items, p)

\* A Pending order whose allocation was split over two warehouses, beside an
\* order that has reached a terminal state.
C17_Witness ==
  /\ \E o \in OrderIDs :
       Pending(o) /\ Cardinality(FragsOf(stock_reservation, o)) = 2
  /\ \E o \in OrderIDs : Terminal(orders[o].status)

\* C18: in every committed state no reservation fragment belongs to an order
\* whose status is Completed or Canceled.
C18_NoFragmentOfTerminalOrder ==
  \A f \in stock_reservation : ~Terminal(orders[f.order_id].status)

\* One order was cancelled and its fragment released, another was paid and
\* its fragment committed; no fragment is left.
C18_Witness ==
  /\ \E o \in OrderIDs : orders[o].status = OrderStatusCanceled
  /\ \E o \in OrderIDs : orders[o].status = OrderStatusCompleted
  /\ \E id \in DOMAIN journal : journal[id].release = 1
  /\ \E id \in DOMAIN journal : journal[id].commit = 1
  /\ stock_reservation = {}

\* C12: an order whose expiration message was published is eventually in a
\* terminal state with its message acknowledged, provided the broker keeps
\* delivering and the cancel endpoint stops failing (after MaxFailures
\* failures): if nobody pays it (only PayOrder sets Completed) the order is
\* Canceled; and the cancel call of the consumer that finds the order
\* Pending at its commit sets it Canceled, takes exactly the quantities the
\* order asked for off reserved (stock untouched) and deletes its fragments.
C12_ExpiredOrderCancelled ==
  /\ \A o \in OrderIDs :
       (order_expiration_queue[o] = "ready")
         ~> (order_expiration_queue[o] = "acked" /\ Terminal(orders[o].status))
  /\ [][\A o \in OrderIDs :
          (orders'[o].status = OrderStatusCompleted
             /\ orders[o].status # OrderStatusCompleted) => ret'.op = "PayOrder"]_vars
  /\ [][(ret'.op = "InternalCancelOrder" /\ ret'.result = Successful
           /\ orders[ret'.order_id].status = OrderStatusPending) =>
          /\ orders'[ret'.order_id].status = OrderStatusCanceled
          /\ order_expiration_queue'[ret'.order_id] = "acked"
          /\ FragsOf(stock_reservation', ret'.order_id) = {}
          /\ \A r \in Rows : warehouse_stock'[r].stock = warehouse_stock[r].stock
          /\ \A p \in Products :
               SumSeq([w \in 1..NumWarehouses |->
                         warehouse_stock[<<w, p>>].reserved
                           - warehouse_stock'[<<w, p>>].reserved])
                 = Requested(orders[ret'.order_id].items, p)]_vars

\* The consumer's cancel failed twice, was retried, and then cancelled the
\* order and released its reservation; the message is acknowledged.
C12_Witness ==
  /\ ret.op = "InternalCancelOrder" /\ ret.result = Successful
  /\ failures = MaxFailures
  /\ order_expiration_queue[ret.order_id] = "acked"
  /\ orders[ret.order_id].status = OrderStatusCanceled
  /\ \E id \in DOMAIN journal : id[1] = ret.order_id /\ journal[id].release = 1
  /\ \A r \in Rows : warehouse_stock[r].reserved = 0

\* C13: a delivery of the expiration message whose cancel call finds the
\* order Completed or Canceled changes neither the order, nor the
\* reservations, nor any row; the call returns InvalidOrderStatus and the
\* message is acknowledged, not requeued (only a failure of the store before
\* the status is read requeues it, also without changing anything).
C13_TriggerOnTerminalOrder ==
  [][(ret'.op = "InternalCancelOrder" /\ Terminal(orders[ret'.order_id].status)
        /\ tx' = tx) =>
       /\ UNCHANGED <<tables, journal>>
       /\ \/ /\ ret'.result = ErrInvalidOrderStatus
             /\ order_expiration_queue'[ret'.order_id] = "acked"
          \/ /\ ret'.result = ErrInternal
             /\ failures' = failures + 1
             /\ order_expiration_queue'[ret'.order_id] = "ready"]_vars

\* A redelivered message (an earlier delivery had failed) found the order
\* paid and was acknowledged.
C13_Witness ==
  /\ ret.op = "InternalCancelOrder" /\ ret.result = ErrInvalidOrderStatus
  /\ failures > 0
  /\ orders[ret.order_id].status = OrderStatusCompleted
  /\ order_expiration_queue[ret.order_id] = "acked"

\* The products an item list names.
ProductsOf(items) == {items[i].ProductID : i \in DOMAIN items}

\* C19 (as claimed): concurrent CreateOrder transactions never deadlock: no
\* two of them wait for each other, whatever the order of the items in their
\* requests and however many warehouses hold a product.
C19_NoDeadlock ==
  \A t, u \in Workers : t # u => ~(Waits(t, u) /\ Waits(u, t))

\* C20 (as claimed): a transaction waits for a lock of another one only if
\* the two touch a common warehouse-stock row: the products of their requests
\* are not disjoint.
C20_DisjointNeverWait ==
  \A t, u \in Workers :
    (t # u /\ Waits(t, u)) =>
      ProductsOf(tx[t].items) \cap ProductsOf(tx[u].items) # {}

\* The fragments of order o sum, for every product, to the quantity its
\* items ask for (table stock_reservation S, order table os).
Holds(S, os, o) ==
  \A p \in Products :
    SumQty({f \in FragsOf(S, o) : f.product_id = p}) = Requested(os[o].items, p)

Delivered(o) ==
  /\ order_expiration_queue[o] = "ready"
  /\ \/ order_expiration_queue'[o] = "unacked"
     \/ ret'.op = "InternalCancelOrder" /\ ret'.order_id = o

\* C23 (as claimed): the x-delay of a published message is never negative,
\* and the message is not delivered to the consumer before the expiry
\* timestamp of its order.
C23_NotBeforeExpiry ==
  [][\A o \in OrderIDs :
       /\ message'[o].x_delay >= 0
       /\ Delivered(o) => now >= order_row[o].expires_at]_vars

\* C27: PayOrder does not look at the expiry.  Called for a Pending order it
\* is never refused, whatever the clock says: it returns success, with the
\* order Completed and its fragments committed (stock and reserved lowered by
\* the quantities ordered), or Internal after a failure of the store.  The
\* expiration message delivered after the payment (its call finds the order
\* Completed and returns at once) changes nothing.
C27_PayAfterExpiry ==
  [][/\ (ret'.op = "PayOrder" /\ orders[ret'.order_id].status = OrderStatusPending) =>
          \/ ret'.result = ErrInternal /\ UNCHANGED <<tables, journal>>
          \/ /\ ret'.result = Successful
             /\ orders'[ret'.order_id].status = OrderStatusCompleted
             /\ FragsOf(stock_reservation', ret'.order_id) = {}
             /\ \A p \in Products :
                  /\ SumSeq([i \in 1..NumWarehouses |-> warehouse_stock[<<i, p>>].stock])
                       - SumSeq([i \in 1..NumWarehouses |-> warehouse_stock'[<<i, p>>].stock])
                        = Requested(orders[ret'.order_id].items, p)
                  /\ SumSeq([i \in 1..NumWarehouses |-> warehouse_stock[<<i, p>>].reserved])
                       - SumSeq([i \in 1..NumWarehouses |-> warehouse_stock'[<<i, p>>].reserved])
                        = Requested(orders[ret'.order_id].items, p)
     /\ (ret'.op = "InternalCancelOrder" /\ tx' = tx
           /\ orders[ret'.order_id].status = OrderStatusCompleted) =>
          /\ ret'.result \in {ErrInvalidOrderStatus, ErrInternal}
          /\ UNCHANGED <<tables, journal>>]_vars

\* An order was paid after its expiry had passed, with its expiration
\* message due but not yet taken by the consumer.
C27_Witness ==
  /\ ret.op = "PayOrder" /\ ret.result = Successful
  /\ now > order_row[ret.order_id].expires_at
  /\ now >= DueAt(message[ret.order_id])
  /\ order_expiration_queue[ret.order_id] = "ready"
  /\ orders[ret.order_id].status = OrderStatusCompleted

\* The consumer is done with the message of slot o in this step.
Handled(o) ==
  order_expiration_queue[o] = "unacked" /\ order_expiration_queue'[o] # "unacked"

\* C24: for a message that decodes, the consumer calls the cancel API once
\* and requeues the message (Nack) exactly when the call fails in transport
\* or answers with a status below 200 or of 500 and above; it acknowledges it
\* on every status from 200 to 499.  A message that is ready, requeued ones
\* included, is delivered.
C24_NackExactlyOnFailure ==
  /\ [][\A o \in OrderIDs :
          (Handled(o) /\ message[o].body # Malformed) =>
            /\ calls' = Append(calls, <<"callCancelOrderAPI", message[o].body.OrderID>>)
            /\ order_expiration_queue'[o] = "ready"
                 <=> (response'.err \/ response'.StatusCode < 200
                        \/ response'.StatusCode >= 500)
            /\ order_expiration_queue'[o] = "acked"
                 <=> (~response'.err /\ response'.StatusCode \in 200..499)]_vars
  /\ \A o \in OrderIDs :
       (order_expiration_queue[o] = "ready") ~> (order_expiration_queue[o] = "unacked")

\* After two failed calls (the last delivery was a redelivery) a call was
\* answered 404 and its message acknowledged.
C24_Witness ==
  /\ failures = MaxFailures
  /\ Len(calls) > MaxFailures
  /\ response = [err |-> FALSE, StatusCode |-> 404]
  /\ \E o \in OrderIDs :
       order_expiration_queue[o] = "acked" /\ message[o].body # Malformed

\* C25: a message whose body does not decode is acknowledged without a call
\* of the cancel API, and an acknowledged message is gone for good: it is
\* never ready or unacknowledged again.
C25_MalformedDropped ==
  [][\A o \in OrderIDs :
       /\ (Handled(o) /\ message[o].body = Malformed) =>
            /\ order_expiration_queue'[o] = "acked"
            /\ UNCHANGED <<calls, response, failures>>
       /\ (order_expiration_queue[o] = "acked") =>
            order_expiration_queue'[o] = "acked"]_vars

\* A malformed message was acknowledged; the calls made so far were all for
\* the other message, which failed and is waiting for redelivery.
C25_Witness ==
  \E o, q \in OrderIDs :
    /\ message[o].body = Malformed /\ order_expiration_queue[o] = "acked"
    /\ message[q].body # Malformed /\ order_expiration_queue[q] = "ready"
    /\ failures > 0 /\ Len(calls) = failures

AvailableLocked(t, productID) ==
  SumSeq([i \in 1..NumWarehouses |->
            IF warehouse[i] = WarehouseStatusActive
                 /\ View(t)[<<i, productID>>].stock > View(t)[<<i, productID>>].reserved
            THEN View(t)[<<i, productID>>].stock - View(t)[<<i, productID>>].reserved
            ELSE 0])

\* C28: a CreateOrder that got past the advisory check and fails in the
\* allocation returns InsufficientStock when ReserveStockTx reported
\* insufficient stock (the locked rows held less than the item asks for), and
\* Internal on every other error; in both cases nothing is written.
C28_InsufficientNotInternal ==
  [][(ret'.op = "CreateOrder" /\ ret'.order_id > 0 /\ ret'.result # Successful) =>
       /\ UNCHANGED <<tables, journal>>
       /\ \E t \in Workers :
            /\ tx[t].op = "CreateOrder" /\ tx[t].order_id = ret'.order_id
            /\ IF ret'.item > 0
               THEN /\ ret'.result = ErrInsufficientStock
                    /\ ret'.item = tx[t].idx
                    /\ AvailableLocked(t, tx[t].items[tx[t].idx].ProductID)
                         < tx[t].items[tx[t].idx].Quantity
               ELSE ret'.result = ErrInternal]_vars

\* The allocation of the first item reported insufficient stock although the
\* advisory check had passed: another order, created meanwhile, holds the
\* stock.
C28_Witness ==
  /\ ret.op = "CreateOrder" /\ ret.result = ErrInsufficientStock
  /\ ret.order_id = 2 /\ ret.item = 1
  /\ orders[1].status = OrderStatusPending
  /\ orders[2] = NoOrder

\* C30 (as claimed): PayOrder and CancelOrder called with the id of an order
\* that does not exist return NotFound, not Internal, and change nothing.
C30_MissingOrderNotFound ==
  [][(ret'.op \in {"PayOrder", "CancelOrder"} /\ orders[ret'.order_id] = NoOrder) =>
       /\ ret'.result = ErrNotFound
       /\ UNCHANGED <<tables, journal>>]_vars

\* The call that failed in an operation that has just returned an error:
\* the last call before the deferred RollbackTx.
FailedCall(cs) ==
  IF Len(cs) > 1 /\ cs[Len(cs)] = "RollbackTx" THEN cs[Len(cs) - 1] ELSE cs[Len(cs)]

\* C29: when GetOrderDetailTx fails in PayOrder or CancelOrder, the
\* operation returns Internal and rolls back, having called neither
\* CommitReservationsTx / ReleaseReservationsTx nor UpdateOrderStatusTx; when
\* CommitReservationsTx / ReleaseReservationsTx fails, it returns Internal
\* and rolls back without a call of UpdateOrderStatusTx.  In both cases
\* CommitTx is not called and the tables are as before.
C29_FailureStopsTheOperation ==
  [][(tx[1].pc = "step" /\ ret'.result = ErrInternal
        /\ FailedCall(calls') \in {"GetOrderDetailTx", "CommitReservationsTx",
                                   "ReleaseReservationsTx"}) =>
       /\ ret'.op = tx[1].op /\ ret'.order_id = tx[1].order_id
       /\ tx'[1] = IdleTx
       /\ calls'[Len(calls')] = "RollbackTx"
       /\ ~Has(calls', "UpdateOrderStatusTx")
       /\ ~Has(calls', "CommitTx")
       /\ FailedCall(calls') = "GetOrderDetailTx" =>
            calls' = <<"BeginTx", "GetOrderDetailTx", "RollbackTx">>
       /\ UNCHANGED <<tables, journal>>]_vars

\* CancelOrder of the Pending order failed in ReleaseReservationsTx: the
\* order is still Pending with its fragment.
C29_Witness ==
  /\ ret.op = "CancelOrder" /\ ret.result = ErrInternal /\ ret.order_id = 1
  /\ calls = <<"BeginTx", "GetOrderDetailTx", "ReleaseReservationsTx", "RollbackTx">>
  /\ orders[1].status = OrderStatusPending
  /\ FragsOf(stock_reservation, 1) # {}

\* C31: only active warehouses take part in allocation.  No step raises
\* reserved of, or leaves a fragment at, a row of an inactive warehouse; a
\* request passes the advisory check only when stock - reserved summed over
\* the active warehouses covers each item; and an allocation whose locked
\* rows of active warehouses hold less than the item asks for ends the order
\* with nothing written, with InsufficientStock unless the store failed,
\* whatever the inactive warehouses hold.
C31_OnlyActiveWarehouses ==
  [][/\ \A r \in Rows :
          warehouse[r[1]] = WarehouseStatusInactive =>
            /\ warehouse_stock'[r].reserved <= warehouse_stock[r].reserved
            /\ FragsAt(stock_reservation', r) = {}
     /\ \A t \in Workers :
          (tx[t].pc = "idle" /\ tx'[t].pc = "reserve") =>
            \A i \in DOMAIN tx'[t].items :
              ~(Advisory(tx'[t].items[i].ProductID) < tx'[t].items[i].Quantity)
     /\ \A t \in Workers :
          (/\ tx[t].pc = "reserve"
           /\ tx'[t].pc = "idle" \/ tx'[t].idx > tx[t].idx
           /\ AvailableLocked(t, tx[t].items[tx[t].idx].ProductID)
                < tx[t].items[tx[t].idx].Quantity) =>
            /\ ret'.op = "CreateOrder" /\ ret'.order_id = tx[t].order_id
            /\ ret'.result \in {ErrInsufficientStock, ErrInternal}
            /\ ret'.result = ErrInsufficientStock <=> ret'.item = tx[t].idx
            /\ UNCHANGED <<tables, journal>>]_vars

\* A create was refused for lack of stock while the active warehouse is
\* empty and the inactive one holds a unit of every product, none reserved.
C31_Witness ==
  /\ ret.op = "CreateOrder" /\ ret.result = ErrInsufficientStock
  /\ warehouse[2] = WarehouseStatusInactive
  /\ \A p \in Products :
       /\ Advisory(p) = 0
       /\ warehouse_stock[<<2, p>>].stock > 0
       /\ warehouse_stock[<<2, p>>].reserved = 0

\* C32 (as claimed): an order has at most one reservation fragment for a
\* warehouse and a product, also when its items name a product more than once.
C32_OneFragmentPerTriple ==
  \A f, g \in stock_reservation :
    (f.order_id = g.order_id /\ f.warehouse_id = g.warehouse_id
       /\ f.product_id = g.product_id) => f = g

\* C33 (as claimed): a warehouse that DeactivateWarehouse has made inactive
\* holds no row with reserved > 0, whatever CreateOrder calls ran beside
\* the deactivation.
C33_InactiveHoldsNoReservation ==
  \A r \in Rows :
    warehouse[r[1]] = WarehouseStatusInactive => warehouse_stock[r].reserved = 0

LedgerCalls == {"CommitReservationsTx", "ReleaseReservationsTx"}

\* C34: PayOrder and CancelOrder make their calls in the order load,
\* check of Pending, ledger (CommitReservationsTx for PayOrder,
\* ReleaseReservationsTx for CancelOrder), UpdateOrderStatusTx, CommitTx:
\* the ledger call follows the load of an order that is Pending, the status
\* update follows a ledger call that succeeded and the commit a status update
\* that succeeded; an operation that returns an error leaves the tables as
\* they were, and one that returns success has made all five calls.
C34_FixedOrderOfSteps ==
  [][(tx[1].pc = "step" /\ tx[1].op \in {"PayOrder", "CancelOrder"}) =>
       /\ \A i \in DOMAIN calls' :
            /\ calls'[i] = "BeginTx" => i = 1
            /\ calls'[i] = "GetOrderDetailTx" => i = 2 /\ calls'[1] = "BeginTx"
            /\ calls'[i] \in LedgerCalls =>
                 /\ i = 3 /\ calls'[2] = "GetOrderDetailTx"
                 /\ Pending(tx[1].order_id)
                 /\ calls'[i] = "CommitReservationsTx" <=> tx[1].op = "PayOrder"
            /\ calls'[i] = "UpdateOrderStatusTx" => i = 4 /\ calls'[3] \in LedgerCalls
            /\ calls'[i] = "CommitTx" => i = 5 /\ calls'[4] = "UpdateOrderStatusTx"
       /\ ret'.result \notin {"none", Successful} =>
            /\ UNCHANGED <<tables, journal>>
            /\ tx'[1] = IdleTx
       /\ ret'.result = Successful =>
            /\ Len(calls') = 5 /\ calls'[5] = "CommitTx"
            /\ orders'[tx[1].order_id].status =
                 (IF tx[1].op = "PayOrder" THEN OrderStatusCompleted
                  ELSE OrderStatusCanceled)]_vars

\* PayOrder of the Pending order failed in UpdateOrderStatusTx, after
\* CommitReservationsTx had succeeded: the fragment and the row are as they
\* were.
C34_Witness ==
  /\ ret.op = "PayOrder" /\ ret.result = ErrInternal /\ ret.order_id = 1
  /\ calls = <<"BeginTx", "GetOrderDetailTx", "CommitReservationsTx",
               "UpdateOrderStatusTx", "RollbackTx">>
  /\ Pending(1)
  /\ \E f \in FragsOf(stock_reservation, 1) :
       warehouse_stock[<<f.warehouse_id, f.product_id>>].reserved = f.quantity

\* C35: every transaction CreateOrder, PayOrder or CancelOrder opens is
\* closed when the operation returns.  A success has called CommitTx once,
\* as its last call, and RollbackTx never; an error after BeginTx succeeded
\* has called RollbackTx once, as its last call, with the tables as they
\* were; and when BeginTx fails the operation returns Internal having called
\* nothing else, RollbackTx included.
C35_TransactionClosed ==
  [][(tx[1].pc = "step" /\ ret'.result # "none") =>
       /\ tx'[1] = IdleTx
       /\ calls'[1] = "BeginTx" /\ Count(calls', "BeginTx") = 1
       /\ IF ret'.result = Successful
          THEN /\ Count(calls', "CommitTx") = 1
               /\ calls'[Len(calls')] = "CommitTx"
               /\ Count(calls', "RollbackTx") = 0
          ELSE IF tx[1].idx = 0
          THEN /\ ret'.result = ErrInternal
               /\ calls' = <<"BeginTx">>
               /\ UNCHANGED <<tables, journal, lastInsertId>>
          ELSE /\ Count(calls', "RollbackTx") = 1
               /\ calls'[Len(calls')] = "RollbackTx"
               /\ \A i \in DOMAIN calls' :
                    calls'[i] = "CommitTx" => i = Len(calls') - 1
               /\ UNCHANGED <<tables, journal>>]_vars

\* CreateOrder got an order id and was refused by ReserveStockTx of its
\* second item: the transaction was rolled back once and no order exists
\* under that id.
C35_Witness ==
  /\ ret.op = "CreateOrder" /\ ret.result = ErrInsufficientStock
  /\ ret.order_id = 2 /\ orders[2] = NoOrder
  /\ Count(calls, "ReserveStockTx") = 2
  /\ Count(calls, "RollbackTx") = 1 /\ Count(calls, "CommitTx") = 0

\* C36: a PayOrder or CancelOrder of order X changes only what belongs to X.
\* CancelOrder changes no row's stock; both leave as they were the rows that
\* no fragment of X refers to, the fragments of every other order (and add
\* none), and every other order; and a call that returns an error changes
\* nothing.
C36_OnlyOwnData ==
  [][ret'.op \in {"PayOrder", "CancelOrder"} =>
       /\ ret'.op = "CancelOrder" =>
            \A r \in Rows : warehouse_stock'[r].stock = warehouse_stock[r].stock
       /\ \A r \in Rows :
            FragsAt(FragsOf(stock_reservation, ret'.order_id), r) = {} =>
              warehouse_stock'[r] = warehouse_stock[r]
       /\ stock_reservation' \subseteq stock_reservation
       /\ \A f \in stock_reservation :
            f.order_id # ret'.order_id => f \in stock_reservation'
       /\ \A o \in OrderIDs : o # ret'.order_id => orders'[o] = orders[o]
       /\ ret'.result # Successful => UNCHANGED tables]_vars

\* An order was paid out of a row that another order, still Pending, has a
\* fragment at: the other order's fragment is there and is all that the row
\* has reserved.
C36_Witness ==
  /\ ret.op = "PayOrder" /\ ret.result = Successful
  /\ \E id \in DOMAIN journal :
       /\ id[1] = ret.order_id /\ journal[id].commit = 1
       /\ \E f \in stock_reservation :
            /\ f.order_id # ret.order_id /\ Pending(f.order_id)
            /\ f.warehouse_id = id[3]
            /\ f.product_id = orders[ret.order_id].items[id[2]].ProductID
            /\ warehouse_stock[<<f.warehouse_id, f.product_id>>].reserved = f.quantity

\* C37 (as claimed): PayOrder and CancelOrder called on behalf of a user who
\* is not the owner of the order are rejected and leave the order and the
\* ledger as they were.  Here every such call is made for Stranger.
C37_NonOwnerRejected ==
  [][(ret'.op \in {"PayOrder", "CancelOrder"}
        /\ order_row[ret'.order_id].user_id # Stranger) =>
       /\ ret'.result # Successful
       /\ UNCHANGED <<tables, journal>>]_vars

\* C38: in every committed state the reserved of every warehouse-stock row
\* equals the sum of the quantities of the reservation fragments that exist
\* for its warehouse and product.
C38_ReservedIsSumOfFragments ==
  \A r \in Rows :
    warehouse_stock[r].reserved = SumQty(FragsAt(stock_reservation, r))

\* A row is reserved by fragments of two orders, one unit each, after an
\* earlier state in which nothing was reserved.
C38_Witness ==
  \E r \in Rows :
    /\ warehouse_stock[r].reserved = 2
    /\ \E f, g \in FragsAt(stock_reservation, r) :
         f.order_id # g.order_id /\ f.quantity = 1 /\ g.quantity = 1

\* The stock of a product over all warehouses in the rows ws.
StockOf(ws, p) == SumSeq([w \in 1..NumWarehouses |-> ws[<<w, p>>].stock])

\* C39 (as claimed): in every committed state, for every product, the stock
\* at the start minus the stock now is the sum of the quantities that the
\* items of the Completed orders ask of the product; Pending and Canceled
\* orders have consumed none.
C39_StockConserved ==
  \A p \in Products :
    StockOf(StockAtStart, p) - StockOf(warehouse_stock, p)
      = SumSeq([o \in OrderIDs |->
                  IF orders[o].status = OrderStatusCompleted
                  THEN Requested(orders[o].items, p) ELSE 0])

\* C40: whenever the consumer acknowledges the expiration message of an
\* order, the order is Canceled or Completed at that moment; a message is
\* never acknowledged while its order is Pending or does not exist.
C40_AckOnlyTerminal ==
  [][\A o \in OrderIDs :
       (order_expiration_queue'[o] = "acked" /\ order_expiration_queue[o] # "acked")
         => /\ orders'[o] # NoOrder
            /\ orders'[o].status \in {OrderStatusCanceled, OrderStatusCompleted}]_vars

\* A delivery failed and was requeued while the order was Pending; the order
\* was then paid, and the redelivered message was acknowledged on the
\* answer 400 of the cancel, which had passed InternalMiddleware.
C40_Witness ==
  /\ InternalMiddleware(InternalAPIKey, Authorization(Consumer_apiKey))
  /\ ret.op = "InternalCancelOrder" /\ ret.result = ErrInvalidOrderStatus
  /\ callCancelOrderAPI(ErrorTypeHTTPCode(ret.result))
  /\ failures = MaxFailures
  /\ order_expiration_queue[ret.order_id] = "acked"
  /\ orders[ret.order_id].status = OrderStatusCompleted
  /\ \E id \in DOMAIN journal : id[1] = ret.order_id /\ journal[id].commit = 1
====
